---- MODULE Spec2Model ----
(***************************************************************************)
(* Model of the event scheduler of powertop (src/src/tui/ui.rs): the Tui   *)
(* object, its two background tasks per session (the input event loop and  *)
(* the data collection loop), the unbounded mpsc event queue, and the      *)
(* lifecycle operations start / stop / enter / exit / suspend / drop /     *)
(* next.                                                                   *)
(*                                                                         *)
(* Sessions are numbered: session 0 is the pair of empty tasks spawned by  *)
(* Tui::new, session n >= 1 is the pair spawned by the n-th start().       *)
(* Cancellation tokens are numbered the same way: token 0 is created by    *)
(* Tui::new, every start() creates the next one.                           *)
(*                                                                         *)
(* `lclock` is a logical clock per input loop.  It advances when one of    *)
(* the loop's timers fires and when a raw terminal event arrives; an event *)
(* is stamped with the instant of its cause and with the clock's value     *)
(* when it is enqueued, so that orderings between these can be stated.     *)
(***************************************************************************)
EXTENDS Integers, Sequences, FiniteSets

\* ---------------------------------------------------------------- bounds
\* The most sessions a run starts (SpecSessions).
MaxSessions == 2
\* Spec: one session under every lifecycle call.
LifeSteps == 1
LifeDataSends == 1
LifeQueue == 2
\* SpecEvents: one session with every kind of raw event and the consumer.
EvSteps == 1
EvDataSends == 1
EvQueue == 3
\* SpecSessions: several sessions, ended by the drop of the Tui.
SesSteps == 1
SesDataSends == 1
SesQueue == 3
\* SpecLive: one session under the calls that run exit(), with fair scheduling.
LiveSteps == 1
LiveDataSends == 1
LiveQueue == 1

\* SpecData: one session whose extractions may fail, ended by the drop of the
\* Tui.
DataSteps == 1
DataSends == 2
DataQueue == 3
\* SpecTokens: sessions that are stopped and restarted.
TokSteps == 1
TokDataSends == 1
TokQueue == 2
\* SpecCancel: sessions whose timers and terminal never stop once their token
\* is cancelled, with fair scheduling and fair choice among the ready branches
\* of the select!.
CancelSteps == 0
CancelDataSends == 1
CancelQueue == 1
\* SpecCollector: the values an extraction can return for a subsystem.
InfoValues == 3

\* ------------------------------------------------------ program constants
MAX_RETRIES == 10
SLEEP_INTERVAL_MS == 1

Sessions == 0..MaxSessions
TaskKinds == {"in", "data"}

\* Raw terminal events as the crossterm stream yields them: Some(Ok(evt)) for
\* the six CrosstermEvent variants (a key event is a press or another kind),
\* Some(Err(_)) and None.
RawKinds ==
  {"KeyPress", "KeyOther", "Mouse", "Resize", "FocusLost", "FocusGained",
   "Paste", "DecodeErr", "End"}

VARIABLES
  tuiAlive,     \* the Tui (event_rx, event_tx, the handles) is not yet dropped
  token,        \* self.cancellation_token: the id of the current token
  cancelled,    \* the set of token ids on which cancel() has been called
  cur,          \* the session whose handles self.task / self.data_collection_task hold
  inPc,         \* per session: the input loop task's position
  dataPc,       \* per session: the data collection task's position
  inTok,        \* per session: the token the input loop cloned (-1: none)
  dataTok,      \* per session: the token the data loop cloned (-1: none)
  inAbort,      \* sessions whose input task got JoinHandle::abort()
  dataAbort,    \* sessions whose data task got JoinHandle::abort()
  tickAt,       \* per session: instant the pending tick became ready (0: not ready)
  renderAt,     \* per session: instant the pending render tick became ready (0: not ready)
  raw,          \* per session: raw terminal events waiting in the EventStream
  queue,        \* the mpsc channel's buffer
  sent,         \* per running task: the number of events it has enqueued
  lclock,       \* per session: the input loop's logical clock
  cfg,          \* the bounds of the run: sessions, clock, data sends, events waiting
                \* in the channel, raw kinds, sets of failing subsystems, whether
                \* the timers and the terminal go on for ever, lifecycle calls
  callOp,       \* the lifecycle call in progress: "idle", "stop", "exit", "suspend", "drop"
  stopTask,     \* inside stop(): which handle abort_task is working on
  attempt,      \* inside abort_task: the loop variable
  abortAtPoll,  \* inside abort_task: the number of is_finished() calls made when
                \* abort() was issued (0: not issued)
  preFinished,  \* both handles were finished when the stop() in progress was called
  ret,          \* the result of the last completed call of the Tui: the call, its
                \* value, the bound a timeout error names, the handle that timed
                \* out, the event next() returned
  collector,    \* DataCollector::data, the snapshot the collector fills per cycle
  cpu,          \* the Cpu component's cpu_stats
  mem,          \* the MemoryComponent's fields
  net,          \* the NetworkComponent's fields and the interface counters of the OS
  conf,         \* the result of Config::new
  table         \* the ProcessTable's collected data

vars ==
  <<tuiAlive, token, cancelled, cur, inPc, dataPc, inTok, dataTok,
    inAbort, dataAbort, tickAt, renderAt, raw, queue, sent,
    lclock, cfg, callOp, stopTask, attempt, abortAtPoll, preFinished,
    ret, collector, cpu, mem, net, conf, table>>

tuiVars == <<tuiAlive, token, cancelled, cur, cfg>>
stopVars == <<callOp, stopTask, attempt, abortAtPoll, preFinished, ret>>
timerVars == <<tickAt, renderAt, raw>>
chanVars == <<queue, sent>>
aggVars == <<collector, cpu, mem, net, conf, table>>

\* ---------------------------------------------------------------- helpers

\* JoinHandle::is_finished: the task's future has completed, was cancelled by
\* an abort, or panicked.
FinishedPcs == {"done", "aborted", "panicked"}

\* Variant: a handle that reports its task finished whatever the task does.
IsFinishedAlways(k, s) == TRUE

\* Variant: a handle that never reports its task finished.
IsFinishedNever(k, s) == FALSE

IsFinished(k, s) == IF k = "in" THEN inPc[s] \in FinishedPcs ELSE dataPc[s] \in FinishedPcs

\* A task holds its clone of event_tx from spawn until it ends.
LiveTasks ==
  {<<"in", s>> : s \in {x \in 1..MaxSessions : inPc[x] \in {"spawned", "loop"}}}
  \cup {<<"data", s>> : s \in {x \in 1..MaxSessions :
                                 dataPc[x] \in {"spawned", "check", "collect", "sleep"}}}

\* The senders of the channel that still exist: the Tui's own event_tx and
\* the clones held by the running tasks.
SendersAlive == (IF tuiAlive THEN {<<"tui", 0>>} ELSE {}) \cup LiveTasks

\* UnboundedSender::send fails exactly when the receiver is gone.
SendFails == ~tuiAlive

Tasks == TaskKinds \X (0..MaxSessions)

\* Option<T>: None, Some(v).
None == [some |-> FALSE, val |-> 0]
Some(v) == [some |-> TRUE, val |-> v]

\* The four subsystems of a snapshot, in the order update_data fills them.
Subsystems == <<"cpu", "processes", "disk", "networks">>
SubsystemSet == {Subsystems[i] : i \in 1..Len(Subsystems)}

\* DataCollected::default(): every field absent.
DataCollectedDefault == [f \in SubsystemSet |-> None]

\* An event in the channel: its variant, the task that sent it, its number
\* among the events of that task, the instant of its cause (the timer's
\* firing, the raw event's arrival), the instant it was enqueued, and the
\* snapshot it carries (of a DataUpdate; nothing for the other variants).
Event(kind, who, s, t, id) ==
  [kind |-> kind, who |-> who, ses |-> s, n |-> sent[<<who, s>>] + 1, t |-> t, id |-> id,
   data |-> DataCollectedDefault]

NoEvent ==
  [kind |-> "none", who |-> "none", ses |-> 0, n |-> 0, t |-> 0, id |-> 0,
   data |-> DataCollectedDefault]

\* Variant: a channel that puts a new event at the head of its buffer.
EnqueueFront(q, e) == <<e>> \o q

\* UnboundedSender::send on an open channel: append at the tail.
Enqueue(q, e) == Append(q, e)

\* Variant: a receiver that hands out the newest event of the buffer.
RecvNewest(q) == q[Len(q)]

\* UnboundedReceiver::recv with a non-empty buffer: take the head.
RecvValue(q) == Head(q)
RecvRest(q) == Tail(q)

\* ------------------------------------------------------------------- Init
InitState ==
  /\ tuiAlive = TRUE
  /\ token = 0
  /\ cancelled = {}
  /\ cur = 0
  /\ inPc = [s \in Sessions |-> IF s = 0 THEN "spawned" ELSE "none"]
  /\ dataPc = [s \in Sessions |-> IF s = 0 THEN "spawned" ELSE "none"]
  /\ inTok = [s \in Sessions |-> -1]
  /\ dataTok = [s \in Sessions |-> -1]
  /\ inAbort = {}
  /\ dataAbort = {}
  /\ tickAt = [s \in Sessions |-> 0]
  /\ renderAt = [s \in Sessions |-> 0]
  /\ raw = [s \in Sessions |-> <<>>]
  /\ queue = <<>>
  /\ sent = [p \in Tasks |-> 0]
  /\ lclock = [s \in Sessions |-> 0]
  /\ callOp = "idle"
  /\ stopTask = "in"
  /\ attempt = 0
  /\ abortAtPoll = 0
  /\ preFinished = FALSE
  /\ ret = [op |-> "new", val |-> "ok", ms |-> 0, task |-> "none", ev |-> NoEvent]

\* The state of the collector and of the components after construction; the
\* counters of the OS start at zero here.
InitCollectorState == collector = DataCollectedDefault

\* Cpu::new: no point yet, no core known.  `reports` is a history variable:
\* per core, the number of updates that reported it.
InitCpuState ==
  cpu = [max_usage |-> 0, min_x |-> 0, max_x |-> 0, points |-> 0,
         cpu_groups |-> [c \in {} |-> <<>>], reports |-> [c \in {} |-> 0]]

\* MemoryComponent::new: totals zero, both windows empty.  `history` and
\* `new_data` are history variables: the percentages of every update in
\* arrival order, and the data of the last update.
InitMemoryState ==
  mem = [total_ram |-> 0, total_swap |-> 0, available_ram |-> <<>>,
         available_swap |-> <<>>, history |-> <<>>,
         new_data |-> [free_ram |-> 0, total_ram |-> 0, free_swap |-> 0, total_swap |-> 0]]

\* Per-interface counters of an OS that has seen no traffic.
ZeroCounters == [total_received |-> <<0, 0, 0>>, total_transmitted |-> <<0, 0, 0>>]

\* NetworkComponent::new: both windows empty, totals zero.  `os` holds the
\* byte counters the OS keeps per interface; `refreshes`, `new_data` and
\* `history` are history variables: the number of refreshes, the data of the
\* last update and the sums of every update in arrival order.
InitNetworkState(os) ==
  net = [received |-> <<>>, transmitted |-> <<>>, total_transmitted |-> 0,
         total_received |-> 0, os |-> os, refreshes |-> 0, new_data |-> <<>>,
         history |-> <<>>]

\* A map without entries.
EmptyMap == [k \in {} |-> ""]

\* Before Config::new has been called there is no configuration.  `user` is
\* a history variable: what the configuration files were deserialized to.
InitConfigState ==
  conf = [state |-> "none",
          user |-> [keybindings |-> EmptyMap, styles |-> EmptyMap],
          keybindings |-> EmptyMap, styles |-> EmptyMap]

\* ProcessTable::new: no process collected.  `updates` is a history
\* variable: the number of updates that carried process data.
InitTableState == table = [collected_data |-> <<>>, updates |-> 0]

InitComponents ==
  /\ InitCollectorState
  /\ InitCpuState
  /\ InitMemoryState
  /\ InitNetworkState(ZeroCounters)
  /\ InitConfigState
  /\ InitTableState

\* The instants the input task's first poll takes: its two intervals.
StartStamps == 2

Init ==
  /\ InitState
  /\ InitComponents
  /\ cfg = [sessions |-> 1, clock |-> StartStamps + LifeSteps,
            dsends |-> LifeDataSends, queue |-> LifeQueue, kinds |-> {"DecodeErr"},
            fails |-> {{}}, forever |-> FALSE, ops |-> {"stop", "exit", "suspend", "drop"}]

InitEvents ==
  /\ InitState
  /\ InitComponents
  /\ cfg = [sessions |-> 1, clock |-> StartStamps + EvSteps,
            dsends |-> EvDataSends, queue |-> EvQueue, kinds |-> RawKinds,
            fails |-> {{}}, forever |-> FALSE, ops |-> {"drop"}]

InitLive ==
  /\ InitState
  /\ InitComponents
  /\ cfg = [sessions |-> 1, clock |-> StartStamps + LiveSteps,
            dsends |-> LiveDataSends, queue |-> LiveQueue, kinds |-> {"DecodeErr"},
            fails |-> {{}}, forever |-> FALSE, ops |-> {"exit", "suspend", "drop"}]

InitSessions ==
  /\ InitState
  /\ InitComponents
  /\ cfg = [sessions |-> MaxSessions, clock |-> StartStamps + SesSteps,
            dsends |-> SesDataSends, queue |-> SesQueue, kinds |-> {"DecodeErr"},
            fails |-> {{}}, forever |-> FALSE, ops |-> {"drop"}]

\* ---------------------------------------------------------- Tui lifecycle

\* The locals of stop() and abort_task are gone once stop() has returned.
StopLocalsGone ==
  /\ stopTask' = "in"
  /\ attempt' = 0
  /\ abortAtPoll' = 0
  /\ preFinished' = FALSE

\* Variant: a token on which no cancellation is ever observed.
IsCancelledNever(t) == FALSE

\* CancellationToken::is_cancelled / cancelled(): cancel() has been called on
\* the token or on a clone of it.
IsCancelled(t) == t \in cancelled

\* Variant: a cancel that leaves the current token alone.
CancelNothing(c) == c

\* Tui::cancel: CancellationToken::cancel on the current token.
Cancel(c) == c \cup {token}

\* Assigning a new JoinHandle drops the old one, which detaches its task.  The
\* empty tasks of Tui::new touch nothing, so once detached they are no longer
\* followed; the loops of an earlier session run on.
Detach(pc) == [pc EXCEPT ![0] = "detached"]

\* Variant: tasks that clone the token start() is about to replace.
SpawnTokenStale == token

\* The token the tasks spawned by start() clone: the fresh one.
SpawnToken == token + 1

\* Tui::start: cancel, install a fresh token, spawn the data collection task
\* and the input loop task, each with a clone of the fresh token.
StartEffect ==
  /\ inAbort' = inAbort \ {0}
  /\ dataAbort' = dataAbort \ {0}
  /\ cancelled' = Cancel(cancelled)
  /\ token' = token + 1
  /\ cur' = cur + 1
  /\ dataPc' = [Detach(dataPc) EXCEPT ![cur + 1] = "spawned"]
  /\ dataTok' = [dataTok EXCEPT ![cur + 1] = SpawnToken]
  /\ inPc' = [Detach(inPc) EXCEPT ![cur + 1] = "spawned"]
  /\ inTok' = [inTok EXCEPT ![cur + 1] = SpawnToken]

Start ==
  /\ tuiAlive
  /\ callOp = "idle"
  /\ cur < cfg.sessions
  /\ StartEffect
  /\ ret' = [op |-> "start", val |-> "ok", ms |-> 0, task |-> "none", ev |-> NoEvent]
  /\ UNCHANGED <<tuiAlive, cfg, aggVars, timerVars, chanVars, lclock,
                 callOp, stopTask, attempt, abortAtPoll, preFinished>>

\* Tui::enter (also reached through Tui::resume): the terminal set-up may fail
\* at any of its steps, and then start() is not reached.
Enter ==
  /\ tuiAlive
  /\ callOp = "idle"
  /\ cur < cfg.sessions
  /\ \E termOk \in BOOLEAN :
       IF termOk
         THEN /\ StartEffect
              /\ ret' = [op |-> "enter", val |-> "ok", ms |-> 0, task |-> "none", ev |-> NoEvent]
         ELSE /\ ret' = [op |-> "enter", val |-> "term_err", ms |-> 0, task |-> "none", ev |-> NoEvent]
              /\ UNCHANGED <<cancelled, token, cur, dataPc, dataTok, inPc, inTok,
                             inAbort, dataAbort>>
  /\ UNCHANGED <<tuiAlive, cfg, aggVars, timerVars, chanVars, lclock,
                 callOp, stopTask, attempt, abortAtPoll, preFinished>>

\* The first statement of Tui::stop, for a direct call (op = "stop") and for
\* the calls through exit ("exit"), suspend ("suspend") and Drop ("drop").
StopCall(op) ==
  /\ op \in cfg.ops
  /\ tuiAlive
  /\ callOp = "idle"
  /\ callOp' = op
  /\ cancelled' = Cancel(cancelled)
  /\ stopTask' = "in"
  /\ attempt' = 0
  /\ abortAtPoll' = 0
  /\ preFinished' = (inPc[cur] \in FinishedPcs /\ dataPc[cur] \in FinishedPcs)
  /\ UNCHANGED <<tuiAlive, token, cur, cfg, aggVars, inPc, dataPc, inTok, dataTok,
                 inAbort, dataAbort, timerVars, chanVars, lclock, ret>>

\* Variant: an error that names the time up to the forced abort.
TimeoutMsHalf == (MAX_RETRIES \div 2) * SLEEP_INTERVAL_MS

\* The bound the error of abort_task names when its loop runs out.
TimeoutMs == MAX_RETRIES * SLEEP_INTERVAL_MS

\* What the call in progress does once stop() has returned `val`:
\* stop returns it; exit goes on to query and restore the terminal, which may fail;
\* suspend returns what exit returned; Drop unwraps what exit returned and the
\* fields of the Tui are dropped.
Return(val, termOk) ==
  LET exitVal == IF val # "ok" THEN val
                 ELSE IF ~termOk THEN "term_err" ELSE "ok"
      ms == IF val = "timeout" THEN TimeoutMs ELSE 0
      task == IF val = "timeout" THEN stopTask ELSE "none"
  IN /\ callOp' = "idle"
     /\ StopLocalsGone
     /\ IF callOp = "stop"
          THEN ret' = [op |-> "stop", val |-> val, ms |-> ms, task |-> task, ev |-> NoEvent]
          ELSE IF callOp = "drop"
            THEN ret' = [op |-> "drop", val |-> IF exitVal = "ok" THEN "ok" ELSE "panic",
                         ms |-> ms, task |-> task, ev |-> NoEvent]
            ELSE ret' = [op |-> callOp, val |-> exitVal, ms |-> ms, task |-> task, ev |-> NoEvent]
     /\ tuiAlive' = (callOp # "drop")
     /\ queue' = IF callOp = "drop" THEN <<>> ELSE queue

\* Variant: the forced abort one attempt before the midpoint.
AbortAttemptEarly == MAX_RETRIES \div 2 - 1

\* Variant: the forced abort on the last attempt.
AbortAttemptLast == MAX_RETRIES - 1

\* The attempt on which abort_task issues the forced abort.
AbortAttempt == MAX_RETRIES \div 2

\* Variant: a loop that retries without counting its attempts.
SameAttempt(a) == a

\* `for attempt in 0..max_retries`: the attempt after attempt a.
NextAttempt(a) == a + 1

\* One iteration of the loop of Tui::abort_task on the handle stop() is working
\* on: is_finished (the call number attempt + 1), the abort on attempt
\* max_retries / 2, the sleep.  When the loop has run out, the error is
\* returned.  When the input task's handle is finished, stop() goes on to the
\* data collection task's handle.
StopAttempt ==
  /\ callOp # "idle"
  /\ IF attempt = MAX_RETRIES
       THEN /\ \E termOk \in BOOLEAN : Return("timeout", termOk)
            /\ UNCHANGED <<inAbort, dataAbort>>
       ELSE IF IsFinished(stopTask, cur)
         THEN IF stopTask = "in"
                THEN /\ stopTask' = "data"
                     /\ attempt' = 0
                     /\ abortAtPoll' = 0
                     /\ UNCHANGED <<callOp, ret, tuiAlive, queue,
                                    inAbort, dataAbort, preFinished>>
                ELSE /\ \E termOk \in BOOLEAN : Return("ok", termOk)
                     /\ UNCHANGED <<inAbort, dataAbort>>
         ELSE /\ IF attempt = AbortAttempt
                   THEN /\ abortAtPoll' = attempt + 1
                        /\ inAbort' = IF stopTask = "in" THEN inAbort \cup {cur} ELSE inAbort
                        /\ dataAbort' = IF stopTask = "data" THEN dataAbort \cup {cur} ELSE dataAbort
                   ELSE UNCHANGED <<abortAtPoll, inAbort, dataAbort>>
              /\ attempt' = NextAttempt(attempt)
              /\ UNCHANGED <<callOp, ret, tuiAlive, queue, stopTask, preFinished>>
  /\ UNCHANGED <<token, cancelled, cur, cfg, aggVars, inPc, dataPc, inTok, dataTok, timerVars,
                 sent, lclock>>

\* Tui::next: recv on the channel.  It returns the head of the buffer, or
\* end-of-stream ("eos") when the buffer is empty and no sender exists;
\* otherwise the caller stays suspended (the action is not enabled).
NextCall ==
  /\ tuiAlive
  /\ callOp = "idle"
  /\ IF queue # <<>>
       THEN /\ queue' = RecvRest(queue)
            /\ ret' = [op |-> "next", val |-> "event", ms |-> 0, task |-> "none",
                       ev |-> RecvValue(queue)]
       ELSE /\ SendersAlive = {}
            /\ ret' = [op |-> "next", val |-> "eos", ms |-> 0, task |-> "none", ev |-> NoEvent]
            /\ UNCHANGED queue
  /\ UNCHANGED <<tuiVars, aggVars, inPc, dataPc, inTok, dataTok, inAbort, dataAbort, timerVars,
                 sent, lclock, callOp, stopTask, attempt, abortAtPoll, preFinished>>

\* ------------------------------------------------------- background tasks

\* A JoinHandle::abort that has been issued has no more effect once its task
\* has ended.
AbortsSettle ==
  /\ inAbort' = {s \in inAbort : inPc'[s] \notin FinishedPcs}
  /\ dataAbort' = {s \in dataAbort : dataPc'[s] \notin FinishedPcs}

\* What a step of an input task leaves alone.
InputFrame ==
  /\ UNCHANGED <<tuiVars, aggVars, dataPc, inTok, dataTok, stopVars>>
  /\ AbortsSettle

\* What a step of a data collection task leaves alone.
DataFrame ==
  /\ UNCHANGED <<tuiVars, aggVars, inPc, inTok, dataTok, timerVars, lclock, stopVars>>
  /\ AbortsSettle

\* The tasks Tui::new spawns: async {} completes on its first poll.
DummyRun(k) ==
  /\ IF k = "in"
       THEN /\ inPc[0] = "spawned"
            /\ inPc' = [inPc EXCEPT ![0] = "done"]
            /\ UNCHANGED dataPc
       ELSE /\ dataPc[0] = "spawned"
            /\ dataPc' = [dataPc EXCEPT ![0] = "done"]
            /\ UNCHANGED inPc
  /\ UNCHANGED <<tuiVars, aggVars, inTok, dataTok, timerVars, chanVars, lclock, stopVars>>
  /\ AbortsSettle

\* The input task of session s ends in position pc: its intervals and its
\* EventStream are dropped with it, and its counters are no longer followed.
InputLeaves(s, pc) ==
  /\ inPc' = [inPc EXCEPT ![s] = pc]
  /\ tickAt' = [tickAt EXCEPT ![s] = 0]
  /\ renderAt' = [renderAt EXCEPT ![s] = 0]
  /\ raw' = [raw EXCEPT ![s] = <<>>]
  /\ sent' = [sent EXCEPT ![<<"in", s>>] = 0]
  /\ lclock' = [lclock EXCEPT ![s] = 0]
  /\ UNCHANGED queue

\* _event_tx.send(e).unwrap() on a closed channel: the unwrap panics and the
\* task ends.
InputPanic(s) == InputLeaves(s, "panicked")

\* The count of the sends of a task after one more send.  In a run that goes
\* on for ever (cfg.forever) the count stops at the bound of the clock.
CountSend(n) == IF cfg.forever /\ n >= cfg.clock THEN n ELSE n + 1

\* _event_tx.send(e) on an open channel, by the input loop of session s.
InputSend(s, kind, t) ==
  /\ Len(queue) < cfg.queue
  /\ queue' = Enqueue(queue, Event(kind, "in", s, t, lclock[s]))
  /\ sent' = [sent EXCEPT ![<<"in", s>>] = CountSend(@)]
  /\ UNCHANGED <<inPc, lclock>>

\* Variant: a timer that was ready when another branch was taken loses its
\* tick with the future that is dropped.
UnselectedLost(at) == 0

\* The futures of the branches select! did not take are dropped; the ones of
\* Interval::tick are cancel safe: a tick that was ready stays ready for the
\* tick() of the next iteration.
Unselected(at) == at

\* The timers of session s after an iteration in which select! took the
\* branch of the raw event.
KeepTimers(s) ==
  /\ tickAt' = [tickAt EXCEPT ![s] = Unselected(@)]
  /\ renderAt' = [renderAt EXCEPT ![s] = Unselected(@)]

\* Variant: a loop whose first event is a Tick.
FirstEventTick(s) == Event("Tick", "in", s, StartStamps, StartStamps)

\* The event the input task sends before it enters its loop.
FirstEvent(s) == Event("Init", "in", s, StartStamps, StartStamps)

\* The input task's first poll: the reader and the two intervals are created
\* (tick first, render second; an interval's first tick is ready at once),
\* then Init is sent.
InputStart(s) ==
  /\ s \in 1..MaxSessions
  /\ inPc[s] = "spawned"
  /\ s \notin inAbort
  /\ IF SendFails
       THEN InputPanic(s)
       ELSE /\ Len(queue) < cfg.queue
            /\ tickAt' = [tickAt EXCEPT ![s] = 1]
            /\ renderAt' = [renderAt EXCEPT ![s] = 2]
            /\ lclock' = [lclock EXCEPT ![s] = StartStamps]
            /\ queue' = Enqueue(queue, FirstEvent(s))
            /\ sent' = [sent EXCEPT ![<<"in", s>>] = @ + 1]
            /\ inPc' = [inPc EXCEPT ![s] = "loop"]
            /\ UNCHANGED raw
  /\ InputFrame

\* select! branch: _cancellation_token.cancelled() => break.
InputCancel(s) ==
  /\ inPc[s] = "loop"
  /\ s \notin inAbort
  /\ IsCancelled(inTok[s])
  /\ InputLeaves(s, "done")
  /\ InputFrame

\* The Event variant the crossterm_event branch sends for a raw event
\* ("none": nothing is sent).
RawToEvent(kind) ==
  CASE kind = "KeyPress" -> "Key"
    [] kind = "KeyOther" -> "none"
    [] kind = "Mouse" -> "Mouse"
    [] kind = "Resize" -> "Resize"
    [] kind = "FocusLost" -> "FocusLost"
    [] kind = "FocusGained" -> "FocusGained"
    [] kind = "Paste" -> "Paste"
    [] kind = "DecodeErr" -> "Error"
    [] kind = "End" -> "none"

\* select! branch: maybe_event = crossterm_event => match ...
InputRaw(s) ==
  /\ inPc[s] = "loop"
  /\ s \notin inAbort
  /\ raw[s] # <<>>
  /\ LET r == Head(raw[s])
         kind == RawToEvent(r.kind)
     IN IF kind = "none"
          THEN /\ raw' = [raw EXCEPT ![s] = Tail(raw[s])]
               /\ KeepTimers(s)
               /\ UNCHANGED <<inPc, queue, sent, lclock>>
          ELSE IF SendFails
            THEN InputPanic(s)
            ELSE /\ InputSend(s, kind, r.t)
                 /\ raw' = [raw EXCEPT ![s] = Tail(raw[s])]
                 /\ KeepTimers(s)
  /\ InputFrame

\* select! branch: _ = tick_delay => send(Event::Tick).
InputTick(s) ==
  /\ inPc[s] = "loop"
  /\ s \notin inAbort
  /\ tickAt[s] # 0
  /\ IF SendFails
       THEN InputPanic(s)
       ELSE /\ InputSend(s, "Tick", tickAt[s])
            /\ tickAt' = [tickAt EXCEPT ![s] = 0]
            /\ renderAt' = [renderAt EXCEPT ![s] = Unselected(@)]
            /\ UNCHANGED raw
  /\ InputFrame

\* select! branch: _ = render_delay => send(Event::Render).
InputRender(s) ==
  /\ inPc[s] = "loop"
  /\ s \notin inAbort
  /\ renderAt[s] # 0
  /\ IF SendFails
       THEN InputPanic(s)
       ELSE /\ InputSend(s, "Render", renderAt[s])
            /\ renderAt' = [renderAt EXCEPT ![s] = 0]
            /\ tickAt' = [tickAt EXCEPT ![s] = Unselected(@)]
            /\ UNCHANGED raw
  /\ InputFrame

\* The next instant of the logical clock of session s.  Past its bound the
\* clock stops and the later instants are not told apart.
NextInstant(s) == IF lclock[s] < cfg.clock THEN lclock[s] + 1 ELSE cfg.clock

\* The periods and the terminal of session s have more to deliver: the clock
\* is below its bound, or the run is one where they go on for ever next to a
\* pending cancellation (cfg.forever).
MoreToCome(s) == lclock[s] < cfg.clock \/ (cfg.forever /\ inTok[s] \in cancelled)

\* A period of the tick interval (w = "tick") or of the render interval
\* (w = "render") of a running input loop elapses.
TimerFire(s, w) ==
  /\ inPc[s] = "loop"
  /\ MoreToCome(s)
  /\ IF w = "tick"
       THEN /\ tickAt[s] = 0
            /\ tickAt' = [tickAt EXCEPT ![s] = NextInstant(s)]
            /\ UNCHANGED renderAt
       ELSE /\ renderAt[s] = 0
            /\ renderAt' = [renderAt EXCEPT ![s] = NextInstant(s)]
            /\ UNCHANGED tickAt
  /\ lclock' = [lclock EXCEPT ![s] = NextInstant(s)]
  /\ UNCHANGED <<inPc, raw, chanVars>>
  /\ InputFrame

\* The terminal delivers a raw event to the EventStream of a running input loop.
RawArrive(s, kind) ==
  /\ inPc[s] = "loop"
  /\ kind \in cfg.kinds
  /\ raw[s] = <<>>
  /\ MoreToCome(s)
  /\ raw' = [raw EXCEPT ![s] = <<[kind |-> kind, t |-> NextInstant(s)]>>]
  /\ lclock' = [lclock EXCEPT ![s] = NextInstant(s)]
  /\ UNCHANGED <<inPc, tickAt, renderAt, chanVars>>
  /\ InputFrame

\* The data collection task of session s ends in position pc.
DataLeaves(s, pc) ==
  /\ dataPc' = [dataPc EXCEPT ![s] = pc]
  /\ sent' = [sent EXCEPT ![<<"data", s>>] = 0]
  /\ UNCHANGED queue

\* What an extraction (get_cpu_info, get_process_info, get_disk_info,
\* get_network_info) can return: Ok(info) or Err(_).
GetInfoResults ==
  {[ok |-> TRUE, info |-> v] : v \in 1..InfoValues} \cup {[ok |-> FALSE, info |-> 0]}

AllResults == [SubsystemSet -> GetInfoResults]

\* DataCollector::update_info: Some(info) on Ok, None (and a warning) on Err.
UpdateInfo(r) == IF r.ok THEN Some(r.info) ELSE None

\* The position of subsystem f in the order update_data works in.
OrderOf(f) == CHOOSE i \in 1..Len(Subsystems) : Subsystems[i] = f

\* Variant: the collector gives up at the first subsystem that fails.
FieldAfterFailFast(res, f) ==
  IF \E g \in SubsystemSet : OrderOf(g) <= OrderOf(f) /\ ~res[g].ok
  THEN None ELSE UpdateInfo(res[f])

\* The value update_data assigns to field f when the extractions return res:
\* each field comes from its own extraction only.
FieldAfter(res, f) == UpdateInfo(res[f])

\* update_data: the four fields of the accumulator are assigned one after
\* the other, whatever they held.
SnapshotOf(res) == [f \in SubsystemSet |-> FieldAfter(res, f)]

\* What the extractions return in cycle k of a data loop when the subsystems
\* of `failing` fail: the others give the readings of that cycle.
CycleResults(failing, k) ==
  [f \in SubsystemSet |->
     IF f \in failing THEN [ok |-> FALSE, info |-> 0] ELSE [ok |-> TRUE, info |-> k]]

\* Variant: a cycle in which every extraction failed reports an Error.
DataEventOrError(s, snapshot) ==
  IF \A f \in SubsystemSet : ~snapshot[f].some
  THEN Event("Error", "data", s, 0, 0)
  ELSE [Event("DataUpdate", "data", s, 0, 0) EXCEPT !.data = snapshot]

\* Variant: an accumulator that is not emptied and keeps the reading of a
\* subsystem that fails: a missing field is taken from the session's last
\* snapshot still in the channel.
DataEventStale(s, snapshot) ==
  LET before == {i \in 1..Len(queue) : queue[i].kind = "DataUpdate" /\ queue[i].ses = s}
      last == CHOOSE i \in before : \A j \in before : j <= i
  IN [Event("DataUpdate", "data", s, 0, 0) EXCEPT
        !.data = [f \in SubsystemSet |->
                    IF snapshot[f].some \/ before = {} THEN snapshot[f]
                    ELSE queue[last].data[f]]]

\* Event::DataUpdate(Box::from(data_state.data)).
DataEvent(s, snapshot) == [Event("DataUpdate", "data", s, 0, 0) EXCEPT !.data = snapshot]

\* The data collection loop's cancellation check at the top of an iteration
\* (the task's first poll starts with it).  The bound on the task's sends
\* stops it here, before the iteration it could not complete.
DataCheck(s) ==
  /\ s \in 1..MaxSessions
  /\ dataPc[s] \in {"spawned", "check"}
  /\ dataPc[s] = "spawned" => s \notin dataAbort
  /\ IF IsCancelled(dataTok[s])
       THEN DataLeaves(s, "done")
       ELSE /\ sent[<<"data", s>>] < cfg.dsends
            /\ dataPc' = [dataPc EXCEPT ![s] = "collect"]
            /\ UNCHANGED chanVars
  /\ DataFrame

\* The rest of an iteration, the extractions returning res: update_data
\* fills the accumulator, which was empty (new at the first iteration, reset
\* in every one before); the snapshot is moved into a DataUpdate and the
\* accumulator is reset; a failed send ends the loop, otherwise the task goes
\* to sleep.
DataCycle(s, res) ==
  /\ dataPc[s] = "collect"
  /\ IF SendFails
       THEN DataLeaves(s, "done")
       ELSE /\ sent[<<"data", s>>] < cfg.dsends
            /\ Len(queue) < cfg.queue
            /\ queue' = Enqueue(queue, DataEvent(s, SnapshotOf(res)))
            /\ sent' = [sent EXCEPT ![<<"data", s>>] = @ + 1]
            /\ dataPc' = [dataPc EXCEPT ![s] = "sleep"]
  /\ DataFrame

DataSend(s) ==
  \E failing \in cfg.fails : DataCycle(s, CycleResults(failing, sent[<<"data", s>>] + 1))

\* tokio::time::sleep(DATA_COLLECTION_SLEEP_INTERVAL) completes.
DataWake(s) ==
  /\ dataPc[s] = "sleep"
  /\ s \notin dataAbort
  /\ dataPc' = [dataPc EXCEPT ![s] = "check"]
  /\ UNCHANGED chanVars
  /\ DataFrame

\* JoinHandle::abort takes effect the next time the runtime gets to the task
\* while it is suspended at an await (or has not been polled yet): the task is
\* cancelled instead of being polled again.
TaskAborted(k, s) ==
  /\ IF k = "in"
       THEN /\ s \in inAbort
            /\ inPc[s] \in {"spawned", "loop"}
            /\ InputLeaves(s, "aborted")
            /\ UNCHANGED dataPc
       ELSE /\ s \in dataAbort
            /\ dataPc[s] \in {"spawned", "sleep"}
            /\ DataLeaves(s, "aborted")
            /\ UNCHANGED <<inPc, timerVars, lclock>>
  /\ UNCHANGED <<tuiVars, aggVars, inTok, dataTok, stopVars>>
  /\ AbortsSettle

\* ------------------------------------------------------------------- Next
Next ==
  \/ Start
  \/ Enter
  \/ \E op \in {"stop", "exit", "suspend", "drop"} : StopCall(op)
  \/ StopAttempt
  \/ NextCall
  \/ \E k \in TaskKinds : DummyRun(k)
  \/ \E s \in Sessions : InputStart(s)
  \/ \E s \in Sessions : InputCancel(s)
  \/ \E s \in Sessions : InputRaw(s)
  \/ \E s \in Sessions : InputTick(s)
  \/ \E s \in Sessions : InputRender(s)
  \/ \E s \in Sessions, w \in {"tick", "render"} : TimerFire(s, w)
  \/ \E s \in Sessions, kind \in RawKinds : RawArrive(s, kind)
  \/ \E s \in Sessions : DataCheck(s)
  \/ \E s \in Sessions : DataSend(s)
  \/ \E s \in Sessions : DataWake(s)
  \/ \E k \in TaskKinds, s \in Sessions : TaskAborted(k, s)

\* The same steps without the consumer: nothing is taken out of the channel.
NextUnread ==
  \/ Start
  \/ Enter
  \/ \E op \in {"stop", "exit", "suspend", "drop"} : StopCall(op)
  \/ StopAttempt
  \/ \E k \in TaskKinds : DummyRun(k)
  \/ \E s \in Sessions : InputStart(s)
  \/ \E s \in Sessions : InputCancel(s)
  \/ \E s \in Sessions : InputRaw(s)
  \/ \E s \in Sessions : InputTick(s)
  \/ \E s \in Sessions : InputRender(s)
  \/ \E s \in Sessions, w \in {"tick", "render"} : TimerFire(s, w)
  \/ \E s \in Sessions, kind \in RawKinds : RawArrive(s, kind)
  \/ \E s \in Sessions : DataCheck(s)
  \/ \E s \in Sessions : DataSend(s)
  \/ \E s \in Sessions : DataWake(s)
  \/ \E k \in TaskKinds, s \in Sessions : TaskAborted(k, s)

Spec == Init /\ [][Next]_vars

SpecEvents == InitEvents /\ [][Next]_vars

SpecSessions == InitSessions /\ [][NextUnread]_vars

\* The sets of subsystems that fail in a cycle of SpecData: none, the first
\* one, all four.
LoopFailures == {{}, {"cpu"}, SubsystemSet}

InitData ==
  /\ InitState
  /\ InitComponents
  /\ cfg = [sessions |-> 1, clock |-> StartStamps + DataSteps,
            dsends |-> DataSends, queue |-> DataQueue, kinds |-> {"DecodeErr"},
            fails |-> LoopFailures, forever |-> FALSE, ops |-> {"drop"}]

SpecData == InitData /\ [][NextUnread]_vars

\* The steps of the input task and of the data collection task of session s.
InputStep(s) ==
  \/ InputStart(s) \/ InputCancel(s) \/ InputRaw(s) \/ InputTick(s) \/ InputRender(s)
  \/ TaskAborted("in", s)

DataStep(s) ==
  \/ DataCheck(s) \/ DataSend(s) \/ DataWake(s)
  \/ TaskAborted("data", s)

\* The runtime gets to every task that can run; the thread inside stop() goes
\* on with its loop; the consumer keeps calling next().
Fairness ==
  /\ WF_vars(StopAttempt)
  /\ SF_vars(NextCall)
  /\ \A s \in 1..MaxSessions : WF_vars(InputStep(s)) /\ WF_vars(DataStep(s))

SpecLive == InitLive /\ [][Next]_vars /\ Fairness

\* The thread inside stop() goes on with its loop, whatever the runtime does
\* with the tasks: they may run, be starved, or never end.
SpecStop == InitLive /\ [][Next]_vars /\ WF_vars(StopAttempt)

InitTokens ==
  /\ InitState
  /\ InitComponents
  /\ cfg = [sessions |-> MaxSessions, clock |-> StartStamps + TokSteps,
            dsends |-> TokDataSends, queue |-> TokQueue, kinds |-> {"DecodeErr"},
            fails |-> {{}}, forever |-> FALSE, ops |-> {"stop"}]

SpecTokens == InitTokens /\ [][NextUnread]_vars

InitCancel ==
  /\ InitState
  /\ InitComponents
  /\ cfg = [sessions |-> MaxSessions, clock |-> StartStamps + CancelSteps,
            dsends |-> CancelDataSends, queue |-> CancelQueue, kinds |-> {"DecodeErr"},
            fails |-> {{}}, forever |-> TRUE, ops |-> {}]

\* The steps of a caller that restarts without ever calling stop(): start(),
\* next() and the tasks.  No abort is issued, so the loop of the replaced
\* session can end through its cancel branch only.
NextCancel ==
  \/ Start
  \/ NextCall
  \/ \E s \in Sessions : InputStart(s)
  \/ \E s \in Sessions : InputCancel(s)
  \/ \E s \in Sessions : InputRaw(s)
  \/ \E s \in Sessions : InputTick(s)
  \/ \E s \in Sessions : InputRender(s)
  \/ \E s \in Sessions, w \in {"tick", "render"} : TimerFire(s, w)
  \/ \E s \in Sessions, kind \in RawKinds : RawArrive(s, kind)
  \/ \E s \in Sessions : DataCheck(s)
  \/ \E s \in Sessions : DataSend(s)
  \/ \E s \in Sessions : DataWake(s)

\* tokio::select! starts its polling at a branch chosen at random, so a
\* branch that stays ready is taken sooner or later, whatever else is ready.
FairBranches == \A s \in 1..MaxSessions : WF_vars(InputCancel(s))

SpecCancel == InitCancel /\ [][NextCancel]_vars /\ Fairness /\ FairBranches

\* ---------------------------------------------------------- data collector

\* The frame of the collector's and the components' steps.
SchedulerVars ==
  <<tuiAlive, token, cancelled, cur, inPc, dataPc, inTok, dataTok,
    inAbort, dataAbort, tickAt, renderAt, raw, queue, sent,
    lclock, cfg, callOp, stopTask, attempt, abortAtPoll, preFinished, ret>>

\* DataCollector::update_data, the extractions returning res.
UpdateData(res) ==
  /\ collector' = SnapshotOf(res)
  /\ UNCHANGED <<SchedulerVars, conf, table, cpu, mem, net>>

\* The data loop moves the snapshot into the event and starts the next cycle
\* from an empty one: data_state.data = DataCollected::default().
ResetData ==
  /\ collector # DataCollectedDefault
  /\ collector' = DataCollectedDefault
  /\ UNCHANGED <<SchedulerVars, conf, table, cpu, mem, net>>

\* No session, no call: the scheduler stands still.
IdleCfg ==
  [sessions |-> 0, clock |-> 0, dsends |-> 0, queue |-> 0, kinds |-> {}, fails |-> {{}},
   forever |-> FALSE, ops |-> {}]

InitCollector ==
  /\ InitState
  /\ InitComponents
  /\ cfg = IdleCfg

NextCollector ==
  \/ \E res \in AllResults : UpdateData(res)
  \/ ResetData

SpecCollector == InitCollector /\ [][NextCollector]_vars

\* ----------------------------------------------------------------- claims

\* The events of the channel's buffer that the same task sent as event e.
SameProducer(e, f) == e.who = f.who /\ e.ses = f.ses

\* The task that sent event e is still running (its counter is still followed).
ProducerRuns(e) ==
  IF e.who = "in" THEN inPc[e.ses] = "loop"
  ELSE dataPc[e.ses] \in {"check", "collect", "sleep"}

\* The number of events of e's producer among queue[lo..hi].
CountOf(e, lo, hi) == Cardinality({k \in lo..hi : SameProducer(queue[k], e)})

\* C1 (as amended): inside abort_task the forced abort is issued on the
\* attempt with index retries/2, that is right after the (retries/2 + 1)-th
\* poll of the finished-status and after retries/2 sleeps, and never later:
\* once the loop is past that attempt the abort has been issued.
C1_AbortAtMidpointAttempt ==
  callOp # "idle" =>
    /\ abortAtPoll \in {0, MAX_RETRIES \div 2 + 1}
    /\ attempt > MAX_RETRIES \div 2 => abortAtPoll = MAX_RETRIES \div 2 + 1
    /\ abortAtPoll # 0 =>
         \/ IsFinished(stopTask, cur)
         \/ cur \in (IF stopTask = "in" THEN inAbort ELSE dataAbort)

\* C1 (as stated): stop() issues the forced abort of a task no later than
\* retries/2 polls of its finished-status.
C1_AbortWithinHalfThePolls ==
  callOp # "idle" => abortAtPoll <= MAX_RETRIES \div 2

\* A task that did not observe cancellation: the loop of abort_task has run
\* out on it, the abort was issued and the task is still unfinished.
C1_Witness ==
  /\ callOp # "idle"
  /\ attempt = MAX_RETRIES
  /\ abortAtPoll = MAX_RETRIES \div 2 + 1
  /\ ~IsFinished(stopTask, cur)

\* C2: when a task is still not finished after all retries, stop() returns a
\* timeout error that names the bound max_retries * 1 ms = 10 ms; the error
\* reaches the caller (stop, exit and suspend return it; Drop unwraps it).
C2_TimeoutReturned ==
  [][(callOp # "idle" /\ callOp' = "idle" /\ attempt = MAX_RETRIES
       /\ ~IsFinished(stopTask, cur))
     => /\ ret'.op = callOp
        /\ ret'.ms = 10
        /\ ret'.task = stopTask
        /\ ret'.val = IF callOp = "drop" THEN "panic" ELSE "timeout"]_vars

\* stop() has returned the timeout error for a task that is still unfinished.
C2_Witness ==
  /\ callOp = "idle"
  /\ ret.op = "stop"
  /\ ret.val = "timeout"
  /\ ret.ms = 10
  /\ ret.task \in TaskKinds
  /\ ~IsFinished(ret.task, cur)

\* C3: when both tasks are already finished as stop() is called, stop()
\* succeeds without a sleep and without a forced abort; so does a second
\* stop() after a successful one.
C3_StopOnFinishedTasks ==
  [][preFinished =>
       /\ attempt' = 0
       /\ abortAtPoll' = 0
       /\ cur \notin inAbort' /\ cur \notin dataAbort'
       /\ callOp' = "idle" =>
            /\ ret'.ms = 0
            /\ ret'.val # "timeout"
            /\ callOp = "stop" => ret'.val = "ok"]_vars

\* A second stop() after a successful stop() of a started session, past the
\* first handle.
C3_Witness ==
  /\ cur >= 1
  /\ ret.op = "stop" /\ ret.val = "ok"
  /\ callOp = "stop"
  /\ preFinished
  /\ stopTask = "data"

\* C4: start() cancels the token of the prior session and no other, installs
\* a fresh token that is not cancelled, and spawns exactly one input loop and
\* one data collection loop, both holding the fresh token.
C4_StartFreshSession ==
  [][cur' # cur =>
       /\ cancelled' = cancelled \cup {token}
       /\ token' # token
       /\ token' \notin cancelled'
       /\ \A s \in Sessions : s # cur' => (inTok[s] # token' /\ dataTok[s] # token')
       /\ {s \in Sessions : inPc'[s] = "spawned" /\ inPc[s] # "spawned"} = {cur'}
       /\ {s \in Sessions : dataPc'[s] = "spawned" /\ dataPc[s] # "spawned"} = {cur'}
       /\ inTok'[cur'] = token'
       /\ dataTok'[cur'] = token']_vars

\* A second start() has returned while the input loop of the first session
\* was running: that loop's token is cancelled, the current one is not.
C4_Witness ==
  /\ cur = 2
  /\ callOp = "idle"
  /\ ret.op = "start" /\ ret.val = "ok"
  /\ inPc[1] = "loop"
  /\ inTok[1] \in cancelled
  /\ token \notin cancelled
  /\ inPc[2] = "spawned" /\ dataPc[2] = "spawned"

C6_TickServicedFirst ==
  /\ \A i, j \in 1..Len(queue) :
       (/\ queue[i].kind = "Tick" /\ queue[j].kind = "Render"
        /\ queue[i].ses = queue[j].ses
        /\ queue[i].id < queue[j].t) => i < j
  /\ \A i \in 1..Len(queue) :
       (/\ queue[i].kind = "Tick" /\ ret.ev.kind = "Render"
        /\ queue[i].ses = ret.ev.ses) => queue[i].id >= ret.ev.t

\* C6 (as stated): for one input loop, when the tick timer fires at t1 and
\* the render timer at t2 > t1 with nothing in between (t2 is the next
\* instant), the Tick for t1 is ahead of the Render for t2.
C6_TickBeforeRender ==
  \A i, j \in 1..Len(queue) :
    (/\ queue[i].kind = "Tick" /\ queue[j].kind = "Render"
     /\ queue[i].ses = queue[j].ses
     /\ queue[j].t = queue[i].t + 1) => i < j

\* A tick fired and was enqueued, then the render timer fired: the Tick is
\* ahead of that Render in the channel.
C6_Witness ==
  \E i, j \in 1..Len(queue) :
    /\ i < j
    /\ queue[i].kind = "Tick" /\ queue[j].kind = "Render"
    /\ queue[i].ses = queue[j].ses
    /\ queue[i].t < queue[j].t
    /\ queue[i].id < queue[j].t

\* C7: the channel is FIFO per producer: the events of one task wait in the
\* order of their numbers without a gap or a repetition, up to the last one
\* the task sent; next() takes the head of the buffer, and a send appends
\* one event and changes nothing else in the buffer.
C7_Buffer ==
  /\ \A i, j \in 1..Len(queue) :
       (i < j /\ SameProducer(queue[i], queue[j]))
         => queue[j].n = queue[i].n + CountOf(queue[i], i + 1, j)
  /\ \A i \in 1..Len(queue) :
       ProducerRuns(queue[i])
         => sent[<<queue[i].who, queue[i].ses>>]
              = queue[i].n + CountOf(queue[i], i + 1, Len(queue))
  /\ \A i \in 1..Len(queue) :
       SameProducer(ret.ev, queue[i])
         => queue[i].n = ret.ev.n + CountOf(queue[i], 1, i)
  /\ (ret.ev.who # "none" /\ ProducerRuns(ret.ev))
       => sent[<<ret.ev.who, ret.ev.ses>>] = ret.ev.n + CountOf(ret.ev, 1, Len(queue))

C7_Step ==
  /\ (tuiAlive' /\ Len(queue') < Len(queue))
       => (queue' = Tail(queue) /\ ret'.val = "event" /\ ret'.ev = Head(queue))
  /\ Len(queue') > Len(queue)
       => (Len(queue') = Len(queue) + 1 /\ SubSeq(queue', 1, Len(queue)) = queue)
  /\ (tuiAlive' /\ Len(queue') = Len(queue)) => queue' = queue

C7_FifoPerProducer == [](C7_Buffer) /\ [][C7_Step]_vars

\* next() has returned an event of a task while the next event of that task
\* waits behind an event of the other task.
C7_Witness ==
  /\ ret.op = "next" /\ ret.val = "event"
  /\ Len(queue) >= 2
  /\ ~SameProducer(ret.ev, queue[1])
  /\ SameProducer(ret.ev, queue[2])
  /\ queue[2].n = ret.ev.n + 1

\* C8: once both tasks of the session have terminated and the buffer is
\* empty, a call of next() returns (end-of-stream) rather than suspending.
C8_NextReturnsAtEnd ==
  (/\ tuiAlive /\ callOp = "idle" /\ cur >= 1
   /\ IsFinished("in", cur) /\ IsFinished("data", cur)
   /\ LiveTasks = {}
   /\ queue = <<>>) => ENABLED NextCall

\* C9: a producer that finds the channel closed ends silently: no task ends
\* in a panic.
C9_ProducersEndSilently ==
  \A s \in Sessions : inPc[s] # "panicked" /\ dataPc[s] # "panicked"

\* C10: an input loop that handles a decode failure enqueues exactly one
\* Error event and stays in its loop.
C10_DecodeFailure ==
  [][\A s \in Sessions :
       (/\ inPc[s] = "loop" /\ raw[s] # <<>>
        /\ Head(raw[s]).kind = "DecodeErr"
        /\ InputRaw(s))
         => /\ inPc'[s] = "loop"
            /\ Len(queue') = Len(queue) + 1
            /\ queue'[Len(queue')].kind = "Error"
            /\ queue'[Len(queue')].ses = s]_vars

\* C11: no state of the scheduler core is a panic: no call of the Tui (start,
\* stop, exit, suspend, resume, next, drop) ends in a panic and no producer
\* task ends in one; a failed stop() reaches the caller as an error value.
C11_NoPanic ==
  /\ ret.val # "panic"
  /\ \A s \in Sessions : inPc[s] # "panicked" /\ dataPc[s] # "panicked"

\* The calls that run exit(): exit itself, suspend and the drop of the Tui.
ExitOps == {"exit", "suspend", "drop"}

\* C12: every call of exit() (also through suspend() and drop) cancels the
\* token that both tasks of the current session hold, and both tasks end up
\* finished (by themselves or by the forced abort), also when stop() fails.
C12_Signalled ==
  (callOp = "idle" /\ callOp' \in ExitOps) =>
    /\ token \in cancelled'
    /\ cur >= 1 => (inTok[cur] = token /\ dataTok[cur] = token)

C12_CleanupOnExit ==
  /\ [][C12_Signalled]_vars
  /\ \A s \in 1..MaxSessions :
       (callOp \in ExitOps /\ cur = s) ~> (IsFinished("in", s) /\ IsFinished("data", s))

\* exit() has failed with the timeout on the input task while the data
\* collection task, which stop() did not get to, is neither finished nor
\* aborted.
C12_Witness ==
  /\ callOp = "idle"
  /\ ret.op = "exit" /\ ret.val = "timeout" /\ ret.task = "in"
  /\ cur >= 1
  /\ ~IsFinished("data", cur)
  /\ cur \notin dataAbort
  /\ dataTok[cur] \in cancelled

\* The positions of a data collection task that has not ended.
DataRunning == {"spawned", "check", "collect", "sleep"}

\* C13: the data collection loop reads its token once, at the start of an
\* iteration.  Once the token is cancelled the loop (unless it is aborted)
\* can only finish the iteration in progress - one send of DataUpdate, one
\* sleep - and then ends at its next check; it does end.
C13_AfterCancel ==
  /\ cancelled \subseteq cancelled'
  /\ \A s \in 1..MaxSessions :
       /\ (dataPc[s] = "check" /\ dataTok[s] \notin cancelled /\ dataPc'[s] # "check")
            => dataPc'[s] = "collect"
       /\ (dataTok[s] \in cancelled /\ dataPc'[s] # dataPc[s]) =>
            CASE dataPc[s] = "spawned" -> dataPc'[s] \in {"done", "aborted"}
              [] dataPc[s] = "check" -> dataPc'[s] = "done"
              [] dataPc[s] = "collect" -> dataPc'[s] \in {"sleep", "done"}
              [] dataPc[s] = "sleep" -> dataPc'[s] \in {"check", "aborted"}
              [] OTHER -> FALSE
       /\ (/\ Len(queue') > Len(queue)
           /\ queue'[Len(queue')].who = "data"
           /\ queue'[Len(queue')].ses = s)
            => (dataPc[s] = "collect" /\ dataPc'[s] = "sleep")

C13_DataLoopCancellation ==
  /\ [][C13_AfterCancel]_vars
  /\ \A s \in 1..MaxSessions :
       (dataTok[s] \in cancelled /\ dataPc[s] \in DataRunning) ~> IsFinished("data", s)

\* Cancellation was requested during an iteration: the task has sent its
\* DataUpdate and sleeps, with the token cancelled and no abort issued.
C13_Witness ==
  \E s \in 1..MaxSessions :
    /\ dataTok[s] \in cancelled
    /\ dataPc[s] = "sleep"
    /\ sent[<<"data", s>>] = 1
    /\ s \notin dataAbort

\* C14: subsystem isolation.  Whatever subset of the four extractions fails
\* in a cycle, update_data leaves each field of the snapshot present exactly
\* when that field's own extraction succeeded, and a present field holds the
\* value its own extraction returned.
C14_FieldsFollowOwnResult ==
  \A res \in AllResults :
    UpdateData(res) =>
      \A f \in SubsystemSet :
        /\ collector'[f].some <=> res[f].ok
        /\ res[f].ok => collector'[f].val = res[f].info

C14_SubsystemIsolation == [][C14_FieldsFollowOwnResult]_vars

\* A cycle in which CPU and disk failed and the two extractions after them
\* succeeded.
C14_Witness ==
  /\ ~collector["cpu"].some
  /\ collector["processes"].some
  /\ ~collector["disk"].some
  /\ collector["networks"].some

\* ---------------------------------------------------------- Cpu component
\* SpecCpu: the number of updates with CPU data, and how many of the first
\* updates may report any list of cores (the later ones report every core).
MaxCpuTicks == 52
CpuFreeTicks == 3

MAX_DATA_POINTS == 50

CpuData(name, usage) == [cpu_name |-> name, cpu_usage |-> usage]

\* CpuDataCollection values: no core, one core, the other core, both.
SteadySample == <<CpuData("cpu0", 20), CpuData("cpu1", 5)>>

CpuSamples ==
  {<<>>, <<CpuData("cpu0", 10)>>, <<CpuData("cpu1", 30)>>, SteadySample}

CpuInputs(n) == IF n <= CpuFreeTicks THEN CpuSamples ELSE {SteadySample}

\* f64::max on the values that occur here.
Max(a, b) == IF a >= b THEN a ELSE b

\* The body of the loop of update_data_stats for one item: a core that has a
\* deque gets (points, usage) pushed at the back, a new core gets a deque
\* holding (0.0, usage).  Nothing is taken from the front.
PushCore(groups, data, points) ==
  IF data.cpu_name \in DOMAIN groups
  THEN [groups EXCEPT ![data.cpu_name] = Append(@, <<points, data.cpu_usage>>)]
  ELSE [c \in DOMAIN groups \cup {data.cpu_name} |->
          IF c = data.cpu_name THEN << <<0, data.cpu_usage>> >> ELSE groups[c]]

RECURSIVE PushAll(_, _, _, _)
PushAll(groups, new_data, i, points) ==
  IF i > Len(new_data) THEN groups
  ELSE PushAll(PushCore(groups, new_data[i], points), new_data, i + 1, points)

\* Variant: only the last item counts.
LastUsage(new_data, i) ==
  IF Len(new_data) = 0 THEN 0 ELSE new_data[Len(new_data)].cpu_usage

\* max_from_new_data: starts at 0.0, the maximum over the items.
RECURSIVE MaxFromNewData(_, _)
MaxFromNewData(new_data, i) ==
  IF i > Len(new_data) THEN 0
  ELSE Max(new_data[i].cpu_usage, MaxFromNewData(new_data, i + 1))

\* The history of reports per core after an update with new_data.
ReportsAfter(reports, new_data) ==
  LET names == {new_data[i].cpu_name : i \in 1..Len(new_data)}
  IN [c \in DOMAIN reports \cup names |->
        (IF c \in DOMAIN reports THEN reports[c] ELSE 0) + (IF c \in names THEN 1 ELSE 0)]

\* Cpu::update_data_stats.
CpuStatsAfter(new_data) ==
  LET points == cpu.points + 1
  IN [max_usage |-> Max(MaxFromNewData(new_data, 1), cpu.max_usage),
      min_x |-> cpu.min_x,
      max_x |-> Max(points, cpu.max_x),
      points |-> points,
      cpu_groups |-> PushAll(cpu.cpu_groups, new_data, 1, points),
      reports |-> ReportsAfter(cpu.reports, new_data)]

\* Cpu::update on Action::DataUpdate(data): data.cpu is Some(new_data) when
\* present, None otherwise (then only a log line is written).
CpuUpdate(present, new_data) ==
  /\ cpu.points < MaxCpuTicks
  /\ IF present THEN cpu' = CpuStatsAfter(new_data) ELSE UNCHANGED cpu
  /\ UNCHANGED <<SchedulerVars, conf, table, collector, mem, net>>

InitCpu ==
  /\ InitState
  /\ InitComponents
  /\ cfg = IdleCfg

NextCpu ==
  \E present \in BOOLEAN, new_data \in CpuInputs(cpu.points + 1) :
    CpuUpdate(present, new_data)

SpecCpu == InitCpu /\ [][NextCpu]_vars

Min(a, b) == IF a <= b THEN a ELSE b

\* C15: CPU window bound.  After N updates that reported a core the core's
\* window holds min(N, MAX_DATA_POINTS) pairs, so never more than
\* MAX_DATA_POINTS.  (Violated: the deque is never shortened.)
C15_CpuWindowBound ==
  \A c \in DOMAIN cpu.cpu_groups :
    /\ Len(cpu.cpu_groups[c]) = Min(cpu.reports[c], MAX_DATA_POINTS)
    /\ Len(cpu.cpu_groups[c]) <= MAX_DATA_POINTS

\* C16: CPU positions.  After every update the positions of the pairs of a
\* core's window are 0, 1, .., len - 1 in order, so a new pair sits at the
\* position that was the window's length.  (Violated: a pushed pair carries
\* the update counter.)
C16_CpuPositionsContiguous ==
  \A c \in DOMAIN cpu.cpu_groups :
    \A i \in 1..Len(cpu.cpu_groups[c]) : cpu.cpu_groups[c][i][1] = i - 1

\* ------------------------------------------------------- Memory component
\* SpecMemory: the number of updates with memory data, and how many of the
\* first updates may carry any sample (the later ones take them in turn).
MaxMemTicks == 12
MemFreeTicks == 6

WINDOW_SIZE == 10

\* An f64: a number or NaN.
F64(x) == [nan |-> FALSE, v |-> x]
NaN == [nan |-> TRUE, v |-> 0]

\* MemoryData values as get_memory_info builds them, with free <= total; the
\* totals are chosen so that the quotients are exact.  The last one is a
\* machine without swap.
MemSamples ==
  <<[free_ram |-> 1, total_ram |-> 4, free_swap |-> 4, total_swap |-> 4],
    [free_ram |-> 3, total_ram |-> 4, free_swap |-> 1, total_swap |-> 2],
    [free_ram |-> 4, total_ram |-> 8, free_swap |-> 0, total_swap |-> 0]>>

MemInputs(n) ==
  IF n <= MemFreeTicks THEN {MemSamples[i] : i \in 1..Len(MemSamples)}
  ELSE {MemSamples[(n % Len(MemSamples)) + 1]}

\* (used as f64 / total as f64) * 100.0 with used = total - free: 0.0 / 0.0 is
\* NaN, and there is no test for a total of zero.
UsageOf(total, free) ==
  LET used == total - free
  IN IF total = 0 THEN NaN ELSE F64((used * 100) \div total)

\* MemoryData::usage_percentages.
UsagePercentages(d) ==
  <<UsageOf(d.total_ram, d.free_ram), UsageOf(d.total_swap, d.free_swap)>>

\* Variant: the oldest pair is dropped but the positions are not shifted.
WindowPushNoShift(win, pct) ==
  LET kept == IF Len(win) = WINDOW_SIZE THEN Tail(win) ELSE win
  IN Append(kept, <<Len(kept), pct>>)

\* A full window loses its front pair and every position moves down by one;
\* then the new pair is pushed at the position equal to the length.
WindowPush(win, pct) ==
  LET kept == IF Len(win) = WINDOW_SIZE
              THEN [i \in 1..(Len(win) - 1) |-> <<win[i + 1][1] - 1, win[i + 1][2]>>]
              ELSE win
  IN Append(kept, <<Len(kept), pct>>)

\* MemoryComponent::update_data_stats.
MemoryAfter(new_data) ==
  LET pct == UsagePercentages(new_data)
  IN [total_ram |-> new_data.total_ram,
      total_swap |-> new_data.total_swap,
      available_ram |-> WindowPush(mem.available_ram, pct[1]),
      available_swap |-> WindowPush(mem.available_swap, pct[2]),
      history |-> Append(mem.history, pct),
      new_data |-> new_data]

\* MemoryComponent::update on Action::DataUpdate(data).
MemoryUpdate(present, new_data) ==
  /\ Len(mem.history) < MaxMemTicks
  /\ IF present THEN mem' = MemoryAfter(new_data) ELSE UNCHANGED mem
  /\ UNCHANGED <<SchedulerVars, conf, table, collector, cpu, net>>

InitMemory ==
  /\ InitState
  /\ InitComponents
  /\ cfg = IdleCfg

NextMemory ==
  \E present \in BOOLEAN, new_data \in MemInputs(Len(mem.history) + 1) :
    MemoryUpdate(present, new_data)

SpecMemory == InitMemory /\ [][NextMemory]_vars

\* The window win holds the last min(N, size) values of column col of the
\* history hist, oldest first, at the positions 0 .. len - 1.
HoldsLast(win, hist, col, size) ==
  LET n == Len(hist)
      k == Min(n, size)
  IN /\ Len(win) = k
     /\ \A i \in 1..k : win[i] = <<i - 1, hist[n - k + i][col]>>

\* C17: after N updates with memory data the ram window and the swap window
\* each hold exactly the last min(N, WINDOW_SIZE) percentages in arrival
\* order, at the positions 0 .. len - 1.
C17_MemoryWindows ==
  /\ HoldsLast(mem.available_ram, mem.history, 1, WINDOW_SIZE)
  /\ HoldsLast(mem.available_swap, mem.history, 2, WINDOW_SIZE)

\* Two pairs have been evicted, and the oldest percentage kept differs from
\* the first that arrived.
C17_Witness ==
  /\ Len(mem.history) = WINDOW_SIZE + 2
  /\ mem.available_ram[1][2] # mem.history[1][1]
  /\ mem.available_swap[1][2] # mem.history[1][2]

\* ------------------------------------------------------ Network component
\* SpecNetwork: the number of updates with network data, and how many of the
\* first updates may carry any sample (the later ones take them in turn).
MaxNetTicks == 27
NetFreeTicks == 3

\* The length both deques are cut to before a push.
NETWORK_WINDOW == 25

\* What one refresh of sysinfo's Networks can observe: per interface, the
\* bytes received and transmitted since the last refresh.
NetSamples ==
  <<[received |-> <<5, 10, 0>>, transmitted |-> <<1, 0, 2>>],
    [received |-> <<0, 0, 0>>, transmitted |-> <<0, 0, 0>>],
    [received |-> <<7, 1, 1>>, transmitted |-> <<3, 3, 3>>]>>

NetInputs(n) ==
  IF n <= NetFreeTicks THEN {NetSamples[i] : i \in 1..Len(NetSamples)}
  ELSE {NetSamples[(n % Len(NetSamples)) + 1]}

\* Whether the snapshot of cycle n carries network data.
NetPresence(n) == IF n <= NetFreeTicks THEN BOOLEAN ELSE {TRUE}

\* The per-interface byte counters of the OS when the program starts: a
\* machine that has seen no traffic, and one that has.
BootCounters ==
  {ZeroCounters,
   [total_received |-> <<100, 0, 50>>, total_transmitted |-> <<20, 0, 0>>]}

\* Networks::refresh: the counters of the OS have advanced by the traffic
\* since the last refresh.
Refresh(os, delta) ==
  [total_received |->
     [i \in DOMAIN os.total_received |-> os.total_received[i] + delta.received[i]],
   total_transmitted |->
     [i \in DOMAIN os.total_transmitted |-> os.total_transmitted[i] + delta.transmitted[i]]]

\* get_network_info: one NetworkData per interface, the bytes since the last
\* refresh and the counters of the OS.
GetNetworkInfo(os, delta) ==
  [i \in DOMAIN os.total_received |->
     [received |-> delta.received[i], total_received |-> os.total_received[i],
      transmitted |-> delta.transmitted[i], total_transmitted |-> os.total_transmitted[i]]]

\* Variant: only the last interface counts.
SumLast(new_data, field) ==
  IF Len(new_data) = 0 THEN 0 ELSE new_data[Len(new_data)][field]

\* new_data.iter().map(|c| c.field).sum()
RECURSIVE SumOver(_, _)
SumOver(new_data, field) ==
  IF Len(new_data) = 0 THEN 0
  ELSE new_data[1][field] + SumOver(Tail(new_data), field)

\* Variant: the deque only grows.
NetPushNoEvict(win, x) == Append(win, x)

\* if len == 25 { pop_front() }; push_back(x)
NetPush(win, x) ==
  Append(IF Len(win) = NETWORK_WINDOW THEN Tail(win) ELSE win, x)

\* NetworkComponent::update_data_stats on the data of a refresh.  The totals
\* are assigned from the counters of the OS.
NetworkAfter(os, new_data) ==
  [received |-> NetPush(net.received, SumOver(new_data, "received")),
   transmitted |-> NetPush(net.transmitted, SumOver(new_data, "transmitted")),
   total_transmitted |-> SumOver(new_data, "total_transmitted"),
   total_received |-> SumOver(new_data, "total_received"),
   os |-> os,
   refreshes |-> net.refreshes + 1,
   new_data |-> new_data,
   history |-> Append(net.history,
                      <<SumOver(new_data, "received"), SumOver(new_data, "transmitted")>>)]

\* One cycle for the network family: the refresh, the extraction, and
\* NetworkComponent::update on the resulting Action::DataUpdate(data).  With
\* the field absent the component only writes a log line.
NetworkUpdate(present, delta) ==
  /\ net.refreshes < MaxNetTicks
  /\ LET os == Refresh(net.os, delta)
     IN IF present
        THEN net' = NetworkAfter(os, GetNetworkInfo(os, delta))
        ELSE net' = [net EXCEPT !.os = os, !.refreshes = @ + 1]
  /\ UNCHANGED <<SchedulerVars, conf, table, collector, cpu, mem>>

InitNetwork ==
  /\ InitState
  /\ InitCollectorState
  /\ InitCpuState
  /\ InitMemoryState
  /\ \E os \in BootCounters : InitNetworkState(os)
  /\ InitConfigState
  /\ InitTableState
  /\ cfg = IdleCfg

NextNetwork ==
  \E present \in NetPresence(net.refreshes + 1), delta \in NetInputs(net.refreshes + 1) :
    NetworkUpdate(present, delta)

SpecNetwork == InitNetwork /\ [][NextNetwork]_vars

\* The sum of a field over the first n interfaces of the data of an update.
RECURSIVE SumUpTo(_, _, _)
SumUpTo(data, field, n) ==
  IF n = 0 THEN 0 ELSE SumUpTo(data, field, n - 1) + data[n][field]

\* C18: the entry an update pushes into the received window is the sum over
\* all interfaces of that update's received bytes, and likewise for the
\* transmitted window.
C18_NetworkSum ==
  Len(net.history) > 0 =>
    /\ net.received[Len(net.received)]
         = SumUpTo(net.new_data, "received", Len(net.new_data))
    /\ net.transmitted[Len(net.transmitted)]
         = SumUpTo(net.new_data, "transmitted", Len(net.new_data))

\* Three interfaces that received 5, 10 and 0 bytes gave the entry 15.
C18_Witness ==
  /\ Len(net.history) > 0
  /\ [i \in 1..Len(net.new_data) |-> net.new_data[i].received] = <<5, 10, 0>>
  /\ net.received[Len(net.received)] = 15

\* An update with network data has just been applied.
NetworkApplied == Len(net'.history) = Len(net.history) + 1

\* C19: running totals.  An update adds the sum of its per-interface received
\* bytes to total_received and the sum of its transmitted bytes to
\* total_transmitted, so neither total ever decreases, also while the windows
\* evict.  (Violated: the totals are overwritten with the sum of the counters
\* of the OS.)
C19_TotalsStep ==
  /\ NetworkApplied =>
       /\ net'.total_received
            = net.total_received + SumUpTo(net'.new_data, "received", Len(net'.new_data))
       /\ net'.total_transmitted
            = net.total_transmitted
              + SumUpTo(net'.new_data, "transmitted", Len(net'.new_data))
  /\ net'.total_received >= net.total_received
  /\ net'.total_transmitted >= net.total_transmitted

C19_RunningTotals == [][C19_TotalsStep]_vars

\* The received window is the last min(N, size) entries of column col of the
\* history, oldest first.
LastSums(win, hist, col, size) ==
  LET n == Len(hist)
      k == Min(n, size)
  IN /\ Len(win) = k
     /\ \A i \in 1..k : win[i] = hist[n - k + i][col]

\* C20: after N updates with network data the received window and the
\* transmitted window each hold exactly the sums of the last
\* min(N, NETWORK_WINDOW) updates in arrival order.
C20_NetworkWindows ==
  /\ LastSums(net.received, net.history, 1, NETWORK_WINDOW)
  /\ LastSums(net.transmitted, net.history, 2, NETWORK_WINDOW)

\* Two sums have been evicted from each window, and the oldest sum kept
\* differs from the first that arrived.
C20_Witness ==
  /\ Len(net.history) = NETWORK_WINDOW + 2
  /\ net.received[1] # net.history[1][1]
  /\ net.transmitted[1] # net.history[1][2]

\* ------------------------------------------------- usage_percentages alone
\* SpecUsage: the largest total of a MemoryData, and the number of updates.
MaxMemTotal == 4
UsageTicks == 1

\* The (total, free) pairs with 0 <= free <= total whose quotient
\* (total - free) / total * 100 is a whole number, and the pair (0, 0).
UsagePairs ==
  {p \in (0..MaxMemTotal) \X (0..MaxMemTotal) :
     /\ p[2] <= p[1]
     /\ p[1] # 0 => ((p[1] - p[2]) * 100) % p[1] = 0}

\* Every MemoryData built from two such pairs.
UsageInputs ==
  {[free_ram |-> r[2], total_ram |-> r[1], free_swap |-> w[2], total_swap |-> w[1]] :
     r \in UsagePairs, w \in UsagePairs}

NextUsage ==
  \E new_data \in UsageInputs :
    /\ Len(mem.history) < UsageTicks
    /\ MemoryUpdate(TRUE, new_data)

SpecUsage == InitMemory /\ [][NextUsage]_vars

\* The percentages of the last update.
LastPercent == mem.history[Len(mem.history)]

\* C21: zero-total guard.  An update whose total_ram is 0 pushes the ram
\* percentage 0 into the ram window, and one whose total_swap is 0 pushes the
\* swap percentage 0; no quotient by zero is formed.  (Violated: the quotient
\* 0.0 / 0.0 is formed and NaN is pushed.)
C21_ZeroTotalGuard ==
  Len(mem.history) > 0 =>
    /\ mem.new_data.total_ram = 0 =>
         mem.available_ram[Len(mem.available_ram)][2] = F64(0)
    /\ mem.new_data.total_swap = 0 =>
         mem.available_swap[Len(mem.available_swap)][2] = F64(0)

\* The percentage p is the number (total - free) / total * 100 and lies in
\* [0, 100].
IsPercentOf(p, total, free) ==
  /\ ~p.nan
  /\ p.v * total = (total - free) * 100
  /\ 0 <= p.v /\ p.v <= 100

\* C22: percentage bound.  For every update with 0 <= free <= total, for ram
\* and for swap independently, the computed percentage equals
\* (total - free) / total * 100 and lies in [0, 100].  (Violated at total = 0,
\* where the result is NaN: the missing guard of C21.)
C22_PercentageBound ==
  Len(mem.history) > 0 =>
    /\ (0 <= mem.new_data.free_ram /\ mem.new_data.free_ram <= mem.new_data.total_ram)
         => IsPercentOf(LastPercent[1], mem.new_data.total_ram, mem.new_data.free_ram)
    /\ (0 <= mem.new_data.free_swap /\ mem.new_data.free_swap <= mem.new_data.total_swap)
         => IsPercentOf(LastPercent[2], mem.new_data.total_swap, mem.new_data.free_swap)

\* The same bound on the updates whose totals are positive.
C22_PositiveTotals ==
  (Len(mem.history) > 0 /\ mem.new_data.total_ram > 0 /\ mem.new_data.total_swap > 0) =>
    /\ IsPercentOf(LastPercent[1], mem.new_data.total_ram, mem.new_data.free_ram)
    /\ IsPercentOf(LastPercent[2], mem.new_data.total_swap, mem.new_data.free_swap)

\* Every usage value an update has reported so far: the deques of the cores
\* keep every pair they were given.
ReportedSoFar ==
  UNION {{cpu.cpu_groups[c][i][2] : i \in 1..Len(cpu.cpu_groups[c])} :
           c \in DOMAIN cpu.cpu_groups}

\* max_usage is the largest of 0 and the usages reported so far.
C23_IsMaximum ==
  /\ cpu.max_usage \in ReportedSoFar \cup {0}
  /\ \A u \in ReportedSoFar : u <= cpu.max_usage

C23_NeverDecreases == cpu'.max_usage >= cpu.max_usage

\* C23: max_usage of the Cpu component never decreases, and after each update
\* with CPU data it equals the maximum usage reported for any core in any
\* update so far, starting from 0.
C23_MaxUsage == []C23_IsMaximum /\ [][C23_NeverDecreases]_vars

\* The maximum 30 was reported in one of the first updates and kept through
\* a later update whose largest usage is 20.
C23_Witness ==
  /\ cpu.max_usage = 30
  /\ cpu.points = CpuFreeTicks + 1

\* The raw events that carry input, and the Event variant that corresponds to
\* each of them.
InputKinds ==
  {"KeyPress", "KeyOther", "Mouse", "Resize", "FocusLost", "FocusGained", "Paste"}

VariantOf(kind) == IF kind \in {"KeyPress", "KeyOther"} THEN "Key" ELSE kind

\* C24: every raw input event the input loop takes from its reader (key,
\* mouse, resize, paste, focus gained, focus lost) makes the loop enqueue
\* exactly one event of the corresponding variant, carrying that raw event.
\* (Violated: a key event that is not a press is taken and nothing is
\* enqueued.)
C24_OneEventPerRawEvent ==
  [][\A s \in Sessions :
       (/\ inPc[s] = "loop" /\ raw[s] # <<>>
        /\ Head(raw[s]).kind \in InputKinds
        /\ InputRaw(s))
         => /\ Len(queue') = Len(queue) + 1
            /\ queue'[Len(queue')].kind = VariantOf(Head(raw[s]).kind)
            /\ queue'[Len(queue')].ses = s
            /\ queue'[Len(queue')].t = Head(raw[s]).t]_vars

\* ------------------------------------------------------------ Config::new
\* Modes of the application: Mode::Home and one more.  Key sequences, the
\* commands a key can be bound to, style keys and styles.
Modes == {"Home", "Other"}
KeySeqs == {"<q>", "<j>"}
Commands == {"Quit", "Down", "Refresh"}
StyleKeys == {"border"}
StyleValues == {"plain", "bold"}

\* The maps from some of the keys K to values of V.
PartialMaps(K, V) == UNION {[D -> V] : D \in SUBSET K}

\* The embedded default configuration: in Home mode <q> is bound to Quit.
DefaultKeybindings == [m \in {"Home"} |-> [k \in KeySeqs |-> IF k = "<q>" THEN "Quit" ELSE "Down"]]
DefaultStyles == [m \in {"Home"} |-> [k \in StyleKeys |-> "plain"]]

\* What builder.build()?.try_deserialize()? can give: an error, or the
\* configuration the user's files hold (any modes, any keys).
UserConfigs ==
  {[keybindings |-> kb, styles |-> st] :
     kb \in PartialMaps(Modes, PartialMaps(KeySeqs, Commands)),
     st \in PartialMaps(Modes, PartialMaps(StyleKeys, StyleValues))}

\* Variant: a default replaces what the user configured for the same key.
MergeOverwrite(user, defaults) ==
  [m \in DOMAIN user \cup DOMAIN defaults |->
     LET mine == IF m \in DOMAIN user THEN user[m] ELSE EmptyMap
     IN IF m \in DOMAIN defaults
        THEN [k \in DOMAIN mine \cup DOMAIN defaults[m] |->
                IF k \in DOMAIN defaults[m] THEN defaults[m][k] ELSE mine[k]]
        ELSE mine]

\* The two loops of Config::new: for every mode of the defaults the user's
\* map of that mode is taken (an empty one is made when there is none), and
\* every default key the map lacks is inserted; a key the map has is kept.
MergeDefaults(user, defaults) ==
  [m \in DOMAIN user \cup DOMAIN defaults |->
     LET mine == IF m \in DOMAIN user THEN user[m] ELSE EmptyMap
     IN IF m \in DOMAIN defaults
        THEN [k \in DOMAIN mine \cup DOMAIN defaults[m] |->
                IF k \in DOMAIN mine THEN mine[k] ELSE defaults[m][k]]
        ELSE mine]

\* Config::new, called once when the program starts: Err when the files
\* cannot be built into a Config, otherwise the user's configuration
\* completed with the defaults.
ConfigNew(loaded, user) ==
  /\ conf.state = "none"
  /\ conf' = IF loaded
             THEN [state |-> "ok", user |-> user,
                   keybindings |-> MergeDefaults(user.keybindings, DefaultKeybindings),
                   styles |-> MergeDefaults(user.styles, DefaultStyles)]
             ELSE [state |-> "err", user |-> user,
                   keybindings |-> EmptyMap, styles |-> EmptyMap]
  /\ UNCHANGED <<SchedulerVars, table, collector, cpu, mem, net>>

InitConfig ==
  /\ InitState
  /\ InitComponents
  /\ cfg = IdleCfg

NextConfig == \E loaded \in BOOLEAN, user \in UserConfigs : ConfigNew(loaded, user)

SpecConfig == InitConfig /\ [][NextConfig]_vars

\* The map `merged` has every key of every mode of `defaults`, bound to what
\* `user` binds it to when `user` has the key and to the default otherwise,
\* and it keeps every binding of `user`.
CompletedBy(merged, user, defaults) ==
  /\ \A m \in DOMAIN defaults : \A k \in DOMAIN defaults[m] :
       /\ m \in DOMAIN merged /\ k \in DOMAIN merged[m]
       /\ merged[m][k] = IF m \in DOMAIN user /\ k \in DOMAIN user[m]
                         THEN user[m][k] ELSE defaults[m][k]
  /\ \A m \in DOMAIN user : \A k \in DOMAIN user[m] :
       /\ m \in DOMAIN merged /\ k \in DOMAIN merged[m]
       /\ merged[m][k] = user[m][k]

\* C25: after a successful Config::new the configuration binds every key of
\* every mode of the default keybindings: to the user's command when the
\* user configured that key, to the default otherwise; no binding of the
\* user is overwritten.  The same holds for the styles.
C25_ConfigMerge ==
  conf.state = "ok" =>
    /\ CompletedBy(conf.keybindings, conf.user.keybindings, DefaultKeybindings)
    /\ CompletedBy(conf.styles, conf.user.styles, DefaultStyles)

\* The user bound <j> in Home mode to Refresh and did not bind <q>: <q> is
\* Quit by default and <j> stays Refresh.
C25_Witness ==
  /\ conf.state = "ok"
  /\ "Home" \in DOMAIN conf.user.keybindings
  /\ DOMAIN conf.user.keybindings["Home"] = {"<j>"}
  /\ conf.user.keybindings["Home"]["<j>"] = "Refresh"
  /\ conf.keybindings["Home"]["<q>"] = "Quit"
  /\ conf.keybindings["Home"]["<j>"] = "Refresh"

\* The input loop of session s has just enqueued an event of variant kind
\* whose cause has the stamp at.
JustSent(s, kind, at) ==
  /\ queue' = Append(queue, queue'[Len(queue')])
  /\ queue'[Len(queue')].kind = kind
  /\ queue'[Len(queue')].who = "in"
  /\ queue'[Len(queue')].ses = s
  /\ queue'[Len(queue')].t = at

\* One iteration of the loop sends at most one event, and a timer that is
\* ready stays ready, with the instant it became ready, until the loop takes
\* its branch and sends its event, or until the loop ends.
C26_Iteration ==
  \A s \in 1..MaxSessions :
    /\ sent'[<<"in", s>>] <= sent[<<"in", s>>] + 1
    /\ Len(queue') <= Len(queue) + 1
    /\ (inPc[s] = "loop" /\ tickAt[s] # 0 /\ tickAt'[s] # tickAt[s])
         => (inPc'[s] # "loop" \/ JustSent(s, "Tick", tickAt[s]))
    /\ (inPc[s] = "loop" /\ renderAt[s] # 0 /\ renderAt'[s] # renderAt[s])
         => (inPc'[s] # "loop" \/ JustSent(s, "Render", renderAt[s]))

\* C26: each iteration of the input loop takes one branch of the select! and
\* so enqueues at most one event; a tick or render timer that was ready but
\* not taken is not lost: it stays ready and, as long as the loop goes on, a
\* later iteration sends its event.
C26_OneBranchPerIteration ==
  /\ [][C26_Iteration]_vars
  /\ \A s \in 1..MaxSessions :
       /\ (inPc[s] = "loop" /\ tickAt[s] # 0) ~> (tickAt[s] = 0)
       /\ (inPc[s] = "loop" /\ renderAt[s] # 0) ~> (renderAt[s] = 0)

\* The render timer has been ready since the loop started, the loop has
\* taken other branches twice, and the Render event now in the channel is
\* the loop's fourth event.
C26_Witness ==
  \E i \in 1..Len(queue) :
    /\ queue[i].kind = "Render"
    /\ queue[i].t = StartStamps
    /\ queue[i].n = 4
    /\ inPc[queue[i].ses] = "loop"

\* The DataUpdate at the tail of the channel after the step.
Newest == queue'[Len(queue')]

\* A cycle of the data loop of session s in which the subsystems of `failing`
\* fail sends a DataUpdate whose snapshot holds exactly the other subsystems,
\* each with the reading of this cycle.
C27_OwnCycleOnly ==
  \A s \in 1..MaxSessions : \A failing \in cfg.fails :
    LET k == sent[<<"data", s>>] + 1
    IN (DataCycle(s, CycleResults(failing, k)) /\ ~SendFails)
         => /\ Len(queue') = Len(queue) + 1
            /\ Newest.kind = "DataUpdate" /\ Newest.ses = s /\ Newest.n = k
            /\ \A f \in SubsystemSet :
                 /\ Newest.data[f].some <=> f \notin failing
                 /\ Newest.data[f].some => Newest.data[f].val = k

\* Every snapshot in the channel holds readings of its own cycle only.
C27_Fresh ==
  \A i \in 1..Len(queue) :
    queue[i].kind = "DataUpdate" =>
      \A f \in SubsystemSet : queue[i].data[f].some => queue[i].data[f].val = queue[i].n

\* C27: snapshot freshness.  Every cycle of the data loop starts from an
\* empty accumulator, so a DataUpdate carries only the readings extracted in
\* its own cycle: a subsystem that fails in cycle k is absent from the
\* snapshot of cycle k, also when it succeeded in cycle k - 1.
C27_SnapshotFreshness == []C27_Fresh /\ [][C27_OwnCycleOnly]_vars

\* CPU was read in the first cycle of a session and failed in the second: the
\* second snapshot has no CPU field and holds the other readings of cycle 2.
C27_Witness ==
  \E i, j \in 1..Len(queue) :
    /\ i < j
    /\ queue[i].kind = "DataUpdate" /\ queue[j].kind = "DataUpdate"
    /\ queue[i].ses = queue[j].ses
    /\ queue[i].n = 1 /\ queue[j].n = 2
    /\ queue[i].data["cpu"] = Some(1)
    /\ queue[j].data["cpu"] = None
    /\ queue[j].data["disk"] = Some(2)

\* The position of the data task of session s changes from a to b.
DataMoves(s, a, b) == dataPc[s] = a /\ dataPc'[s] = b

\* An iteration of the data loop of session s that got past the cancellation
\* check ends with exactly one DataUpdate enqueued (whatever the snapshot
\* holds) and the task asleep, unless the channel is closed; and the task's
\* positions follow collect -> sleep -> check -> collect, its count of sends
\* growing on collect -> sleep only, so that one sleep lies between two sends.
C28_Iteration ==
  \A s \in 1..MaxSessions :
    /\ (DataSend(s) /\ ~SendFails)
         => /\ queue' = Append(queue, queue'[Len(queue')])
            /\ queue'[Len(queue')].kind = "DataUpdate"
            /\ queue'[Len(queue')].who = "data" /\ queue'[Len(queue')].ses = s
            /\ DataMoves(s, "collect", "sleep")
    /\ sent'[<<"data", s>>] > sent[<<"data", s>>]
         => /\ sent'[<<"data", s>>] = sent[<<"data", s>>] + 1
            /\ DataMoves(s, "collect", "sleep")
    /\ (dataPc'[s] = "sleep" /\ dataPc[s] # "sleep")
         => /\ dataPc[s] = "collect"
            /\ sent'[<<"data", s>>] = sent[<<"data", s>>] + 1
    /\ (dataPc'[s] = "check" /\ dataPc[s] # "check") => dataPc[s] = "sleep"
    /\ (dataPc'[s] = "collect" /\ dataPc[s] # "collect") => dataPc[s] \in {"spawned", "check"}

\* A task whose token is not cancelled finds the channel open.
C28_OpenWhileNotCancelled ==
  \A s \in 1..MaxSessions :
    (dataPc[s] = "collect" /\ dataTok[s] \notin cancelled) => ~SendFails

\* C28: every iteration of the data loop that is not cancelled enqueues
\* exactly one DataUpdate, also when all four subsystems fail and the snapshot
\* is empty, and between two consecutive DataUpdates of a session the task
\* sleeps exactly once.
C28_OneUpdatePerIteration == []C28_OpenWhileNotCancelled /\ [][C28_Iteration]_vars

\* A session's first cycle found all four subsystems failing and sent an
\* empty snapshot; the task slept, checked, and sent its second DataUpdate.
C28_Witness ==
  \E i, j \in 1..Len(queue) :
    /\ i < j
    /\ queue[i].kind = "DataUpdate" /\ queue[j].kind = "DataUpdate"
    /\ queue[i].ses = queue[j].ses
    /\ queue[i].n = 1 /\ queue[j].n = 2
    /\ queue[i].data = DataCollectedDefault
    /\ dataPc[queue[j].ses] = "sleep"

\* The input loop of session s is running and its token is cancelled.
CancelRequested(s) == inPc[s] = "loop" /\ inTok[s] \in cancelled

\* An input task that has ended enqueues nothing.
C29_SilentAfterEnd ==
  \A s \in 1..MaxSessions :
    inPc[s] \in FinishedPcs =>
      ~(/\ Len(queue') > Len(queue)
        /\ queue'[Len(queue')].who = "in"
        /\ queue'[Len(queue')].ses = s)

\* C29: once cancellation is requested on the token of a running input loop,
\* the loop ends, under fair scheduling and fair choice among the ready
\* branches, also while raw events, ticks and render ticks keep becoming
\* ready; after it has taken the cancel branch it enqueues no further event.
C29_InputLoopTermination ==
  /\ [][C29_SilentAfterEnd]_vars
  /\ \A s \in 1..MaxSessions : CancelRequested(s) ~> IsFinished("in", s)

\* The loop of the first session is cancelled by the second start(), no
\* abort is pending on it, and a tick, a render tick and a raw event are all
\* ready next to the cancel branch.
C29_Witness ==
  /\ CancelRequested(1)
  /\ cur = 2
  /\ 1 \notin inAbort
  /\ tickAt[1] # 0 /\ renderAt[1] # 0 /\ raw[1] # <<>>
  /\ lclock[1] = cfg.clock

\* The sessions started so far.
Started == 1..cur

\* The two tasks of a session hold the same token, the tasks of different
\* sessions hold different ones, and the token of the Tui is the one the tasks
\* of the latest session hold.
C30_TokenPerSession ==
  /\ \A s \in Started : inTok[s] = dataTok[s]
  /\ \A s, t \in Started : s # t => inTok[s] # inTok[t]
  /\ cur > 0 => inTok[cur] = token

\* A step that installs a token (a start()) cancels the token it replaces,
\* installs one that is not cancelled and hands that one to both new tasks.
C30_FreshToken ==
  cur' # cur =>
    /\ token' \notin cancelled'
    /\ cancelled' = cancelled \cup {token}
    /\ inTok'[cur'] = token' /\ dataTok'[cur'] = token'

\* No step changes the token a spawned task holds, and no step takes a
\* cancellation back.
C30_NeverUncancelled ==
  /\ \A s \in Started : inTok'[s] = inTok[s] /\ dataTok'[s] = dataTok[s]
  /\ cancelled \subseteq cancelled'

\* While the token of the Tui is cancelled and stays installed, no step (a
\* further cancel() included) changes which tokens are cancelled.
C30_CancelIdempotent ==
  (token' = token /\ token \in cancelled) => cancelled' = cancelled

\* C30: the tasks a start() spawns hold the token that start() installed and
\* no other; a later start() installs a fresh token and leaves the cancelled
\* token of the earlier session cancelled; cancelling a token that is already
\* cancelled changes nothing.
C30_OneTokenPerSession ==
  /\ []C30_TokenPerSession
  /\ [][C30_FreshToken /\ C30_NeverUncancelled /\ C30_CancelIdempotent]_vars

\* In the second session a stop() has returned and a further stop() has just
\* cancelled the token again; the loop of the first session still holds its
\* own, cancelled, token.
C30_Witness ==
  /\ cur = 2
  /\ ret.op = "stop" /\ callOp = "stop" /\ attempt = 0
  /\ {inTok[1], inTok[2]} \subseteq cancelled
  /\ inTok[1] # token /\ inTok[2] = token

\* The tasks on which the step issues a JoinHandle::abort.
AbortIssued(k) == IF k = "in" THEN inAbort' \ inAbort ELSE dataAbort' \ dataAbort

\* A step that issues an abort is a step of a stop() in progress, on the
\* handle that stop() is working on, of the current session, after the
\* token has been cancelled, after the polls up to the midpoint of the retry
\* budget have all found the task unfinished, and it is the first abort of
\* this stop() on this handle.
C31_Escalation ==
  \A k \in TaskKinds :
    AbortIssued(k) # {} =>
      /\ callOp # "idle"
      /\ k = stopTask
      /\ AbortIssued(k) = {cur}
      /\ token \in cancelled
      /\ cur > 0 => (inTok[cur] \in cancelled /\ dataTok[cur] \in cancelled)
      /\ ~IsFinished(k, cur)
      /\ attempt = MAX_RETRIES \div 2
      /\ abortAtPoll = 0
      /\ abortAtPoll' = MAX_RETRIES \div 2 + 1

\* A poll of stop() that finds its task finished issues no abort.
C31_FinishedNotAborted ==
  (callOp # "idle" /\ IsFinished(stopTask, cur)) =>
    (inAbort' \subseteq inAbort /\ dataAbort' \subseteq dataAbort)

\* C31: a forced abort is issued only inside stop(), only after the token has
\* been cancelled and only after the task was found unfinished on every poll
\* up to the midpoint of the retry budget; a task found finished is not
\* aborted; at most one abort is issued per task and stop().
C31_ForcedAbortIsEscalation ==
  [][C31_Escalation /\ C31_FinishedNotAborted]_vars

\* stop() of a started session has just issued the abort of the data
\* collection task, after the input task was found finished.
C31_Witness ==
  /\ cur = 1
  /\ callOp # "idle"
  /\ stopTask = "data"
  /\ cur \in dataAbort
  /\ abortAtPoll = MAX_RETRIES \div 2 + 1
  /\ attempt = MAX_RETRIES \div 2 + 1

\* The first send of the data collection task of session s is pending, on an
\* open channel.
FirstDataPending(s) ==
  /\ tuiAlive
  /\ dataPc[s] = "collect"
  /\ sent[<<"data", s>>] = 0
  /\ Len(queue) < cfg.queue

\* Whenever the first DataUpdate of a session is pending together with the
\* Init of that session, or together with a Tick that is ready, either task
\* can be the one that sends next.
C32_EitherFirst ==
  \A s \in 1..MaxSessions :
    /\ (FirstDataPending(s) /\ inPc[s] = "spawned" /\ s \notin inAbort)
         => /\ ENABLED (InputStart(s) /\ Len(queue') = Len(queue) + 1)
            /\ ENABLED (DataSend(s) /\ Len(queue') = Len(queue) + 1)
    /\ (FirstDataPending(s) /\ inPc[s] = "loop" /\ s \notin inAbort /\ tickAt[s] # 0)
         => /\ ENABLED (InputTick(s) /\ Len(queue') = Len(queue) + 1)
            /\ ENABLED (DataSend(s) /\ Len(queue') = Len(queue) + 1)

\* A send puts its event behind the events that wait in the channel, and the
\* consumer takes the event at the head: the consumer sees the events of the
\* two tasks in the order of their sends.
C32_SendOrderKept ==
  /\ Len(queue') > Len(queue) =>
       /\ Len(queue') = Len(queue) + 1
       /\ \A i \in 1..Len(queue) : queue'[i] = queue[i]
  /\ (ret' # ret /\ ret'.op = "next" /\ ret'.val = "event") =>
       /\ ret'.ev = queue[1]
       /\ Len(queue') = Len(queue) - 1
       /\ \A i \in 1..Len(queue') : queue'[i] = queue[i + 1]

\* C32: nothing orders the events of the two tasks of a session: the first
\* DataUpdate can be sent, and so dequeued, before Init or after it, and a
\* Tick before or after a DataUpdate that is ready at the same time.
C32_NoCrossProducerOrdering ==
  /\ []C32_EitherFirst
  /\ [][C32_SendOrderKept]_vars

\* The consumer has dequeued the first DataUpdate of the session while Init,
\* and a Tick behind it, still wait in the channel.
C32_Witness ==
  /\ ret.op = "next" /\ ret.val = "event"
  /\ ret.ev.kind = "DataUpdate" /\ ret.ev.ses = 1 /\ ret.ev.n = 1
  /\ Len(queue) >= 2
  /\ queue[1].kind = "Init" /\ queue[1].ses = 1
  /\ queue[2].kind = "Tick" /\ queue[2].ses = 1

\* The step on which the stop() of the call in progress returns Ok: the call
\* ends and its result names no task and no timeout.
StopSucceeds ==
  /\ callOp # "idle" /\ callOp' = "idle"
  /\ ret'.task = "none" /\ ret'.ms = 0

\* When stop() returns Ok the two tasks of the current session have ended.
C33_BothFinished ==
  StopSucceeds => (inPc'[cur] \in FinishedPcs /\ dataPc'[cur] \in FinishedPcs)

\* A task that has ended stays ended (the empty tasks of Tui::new are no
\* longer followed once start() has dropped their handles) and no event of
\* it is enqueued.
C33_EndedStaysSilent ==
  \A s \in Sessions :
    /\ inPc[s] \in FinishedPcs =>
         /\ inPc'[s] \in FinishedPcs \cup {"detached"}
         /\ ~(Len(queue') > Len(queue) /\ queue'[Len(queue')].who = "in"
              /\ queue'[Len(queue')].ses = s)
    /\ dataPc[s] \in FinishedPcs =>
         /\ dataPc'[s] \in FinishedPcs \cup {"detached"}
         /\ ~(Len(queue') > Len(queue) /\ queue'[Len(queue')].who = "data"
              /\ queue'[Len(queue')].ses = s)

\* C33: when stop() returns Ok, the input task and the data collection task
\* of the current session are finished, and neither enqueues an event from
\* then on.
C33_SuccessfulStop == [][C33_BothFinished /\ C33_EndedStaysSilent]_vars

\* A direct stop() of a started session has returned Ok: the input loop left
\* through its cancel branch and the data collection task was aborted in its
\* sleep, with events of both still in the channel.
C33_Witness ==
  /\ cur = 1
  /\ callOp = "idle"
  /\ ret.op = "stop" /\ ret.val = "ok"
  /\ inPc[1] = "done" /\ dataPc[1] = "aborted"
  /\ \E i, j \in 1..Len(queue) : queue[i].who = "in" /\ queue[j].who = "data"

\* When stop() returns Ok no task of an earlier session is still running.
C34_EarlierEnded ==
  StopSucceeds =>
    \A s \in 1..MaxSessions :
      s < cur => (inPc'[s] \in FinishedPcs /\ dataPc'[s] \in FinishedPcs)

\* No event of an earlier session waits in the channel behind the Init of a
\* later session.
C34_NoLateEvents ==
  \A i, j \in 1..Len(queue) :
    (i < j /\ queue[i].kind = "Init") => queue[j].ses >= queue[i].ses

\* C34: once stop() has returned Ok no task of an earlier session is still
\* running, and no event of an earlier session is enqueued after the Init of
\* a later one, also when start() is called twice with no stop() in between.
C34_NoStaleSessions ==
  /\ [][C34_EarlierEnded]_vars
  /\ []C34_NoLateEvents

\* The first part of C34 on its own.
C34_EarlierEndedAlways == [][C34_EarlierEnded]_vars

\* C35: whenever stop() returns the timeout error for a task, that task is
\* not finished at the moment the error is returned.
C35_TimeoutOnlyIfUnfinished ==
  [][(callOp # "idle" /\ callOp' = "idle" /\ ret'.task # "none")
       => IF ret'.task = "in" THEN inPc'[cur] \notin FinishedPcs
                              ELSE dataPc'[cur] \notin FinishedPcs]_vars

\* Inside stop() the loop on a handle has made at most MAX_RETRIES = 10
\* polls that found the task unfinished, each followed by one sleep of
\* SLEEP_INTERVAL_MS = 1 ms; the poll of attempt 10 does not exist.
C36_PollsBounded ==
  callOp # "idle" => (attempt \in 0..10 /\ attempt * SLEEP_INTERVAL_MS <= 10)

\* stop() works on the input task's handle first and on the data collection
\* task's handle second, on each once: at most two loops, 20 polls in all.
C36_TwoLoops ==
  /\ (callOp = "idle" /\ callOp' # "idle") => (stopTask' = "in" /\ attempt' = 0)
  /\ (callOp # "idle" /\ callOp' # "idle" /\ stopTask' # stopTask)
       => (stopTask = "in" /\ stopTask' = "data" /\ attempt' = 0)
  /\ (callOp # "idle" /\ callOp' # "idle" /\ stopTask' = stopTask)
       => attempt' \in {attempt, attempt + 1}

\* C36: stop() returns, with Ok or the timeout error, after at most 10 polls
\* and 10 sleeps of one millisecond per task and 20 in all, whatever the two
\* tasks do; it never waits for a task without bound.
C36_StopTerminates ==
  /\ []C36_PollsBounded
  /\ [][C36_TwoLoops]_vars
  /\ (callOp # "idle") ~> (callOp = "idle")

\* stop() is on its second loop and has used up the polls of it: the data
\* collection task never ended, and the next step returns the timeout error.
C36_Witness ==
  /\ callOp # "idle"
  /\ stopTask = "data"
  /\ attempt = 10
  /\ dataPc[cur] \notin FinishedPcs

\* ------------------------------------------- Component::update, all four

\* SpecFrame: the updates with data each component takes.
FrameTicks == 2

Components == {"cpu", "memory", "networks", "processes"}

\* A ProcessDataCollection with one process.
ProcSample ==
  <<[pid |-> 1, parent |-> None, name |-> "init", status |-> "Run", cpu_usage |-> 0]>>

\* The snapshots an Action::DataUpdate can carry to the components: each of
\* the fields they read is None or Some(collection).
FramePayloads ==
  [cpu : {None, Some(SteadySample)},
   memory : {None, Some(MemSamples[1])},
   networks : {None, Some(GetNetworkInfo(ZeroCounters, NetSamples[1]))},
   processes : {None, Some(ProcSample)}]

NoPayload == [cpu |-> None, memory |-> None, networks |-> None, processes |-> None]

\* The actions a component is handed: a DataUpdate with its snapshot, or any
\* other variant ("Other").
FrameActions ==
  {[kind |-> "Other", data |-> NoPayload]}
    \cup {[kind |-> "DataUpdate", data |-> d] : d \in FramePayloads}

\* `if let Action::DataUpdate(data) = action { match data.<field> { Some(d) => .. } }`:
\* the collection the component of family f takes out of the action, if any.
FieldOf(action, f) == IF action.kind = "DataUpdate" THEN action.data[f] ELSE None

\* Variant: a component that takes an absent field for an empty collection.
CpuOnAbsentAsEmpty(action) ==
  CpuStatsAfter(IF FieldOf(action, "cpu").some THEN FieldOf(action, "cpu").val ELSE <<>>)

\* Cpu::update.
CpuOn(action) ==
  IF FieldOf(action, "cpu").some THEN CpuStatsAfter(FieldOf(action, "cpu").val) ELSE cpu

\* MemoryComponent::update.
MemoryOn(action) ==
  IF FieldOf(action, "memory").some THEN MemoryAfter(FieldOf(action, "memory").val) ELSE mem

\* NetworkComponent::update.
NetworkOn(action) ==
  IF FieldOf(action, "networks").some
    THEN NetworkAfter(net.os, FieldOf(action, "networks").val)
    ELSE net

\* ProcessTable::update: update_data_stats replaces the collected data.
TableOn(action) ==
  IF FieldOf(action, "processes").some
    THEN [collected_data |-> FieldOf(action, "processes").val, updates |-> table.updates + 1]
    ELSE table

\* The updates with data component c has taken.
UpdatesOf(c) ==
  IF c = "cpu" THEN cpu.points
  ELSE IF c = "memory" THEN Len(mem.history)
  ELSE IF c = "networks" THEN Len(net.history)
  ELSE table.updates

\* Component::update of component c on an action: `&mut self` is the one
\* component.  `ret` records the call: the component in `task`, the action in
\* `ev`; the call returns Ok(None).
ComponentUpdate(c, action) ==
  /\ FieldOf(action, c).some => UpdatesOf(c) < FrameTicks
  /\ cpu' = IF c = "cpu" THEN CpuOn(action) ELSE cpu
  /\ mem' = IF c = "memory" THEN MemoryOn(action) ELSE mem
  /\ net' = IF c = "networks" THEN NetworkOn(action) ELSE net
  /\ table' = IF c = "processes" THEN TableOn(action) ELSE table
  /\ ret' = [op |-> "update", val |-> "ok", ms |-> 0, task |-> c,
             ev |-> [NoEvent EXCEPT !.kind = action.kind, !.data = action.data]]
  /\ UNCHANGED <<tuiAlive, token, cancelled, cur, inPc, dataPc, inTok, dataTok,
                 inAbort, dataAbort, tickAt, renderAt, raw, queue, sent,
                 lclock, cfg, callOp, stopTask, attempt, abortAtPoll, preFinished,
                 collector, conf>>

InitFrame ==
  /\ InitState
  /\ InitComponents
  /\ cfg = IdleCfg

NextFrame == \E c \in Components, action \in FrameActions : ComponentUpdate(c, action)

SpecFrame == InitFrame /\ [][NextFrame]_vars

\* The step is an update of component c that gives it nothing to take in: it
\* is the update of another component, or the action is no DataUpdate, or the
\* field of the family of c is absent.
NothingFor(c) ==
  ret'.op = "update" =>
    \/ ret'.task # c
    \/ ret'.ev.kind # "DataUpdate"
    \/ ~ret'.ev.data[c].some

\* C37: an update with the field of a family absent, and an update with an
\* action that is no DataUpdate, leave the state of that family's component
\* unchanged, and the update of one component never changes the state of
\* another.
C37_AggregatorFrame ==
  [][/\ NothingFor("cpu") => cpu' = cpu
     /\ NothingFor("memory") => mem' = mem
     /\ NothingFor("networks") => net' = net
     /\ NothingFor("processes") => table' = table]_vars

\* Every component holds data, and the last call handed the cpu component a
\* DataUpdate that carries memory data and no cpu data.
C37_Witness ==
  /\ ret.op = "update" /\ ret.task = "cpu"
  /\ ret.ev.kind = "DataUpdate"
  /\ ~ret.ev.data["cpu"].some /\ ret.ev.data["memory"].some
  /\ cpu.points > 0 /\ Len(mem.history) > 0 /\ Len(net.history) > 0 /\ table.updates > 0

\* The sessions whose task of kind k has been spawned and holds a token that
\* is not cancelled.
ActiveSessions(k) ==
  {s \in 1..MaxSessions :
     IF k = "in" THEN inPc[s] # "none" /\ inTok[s] \notin cancelled
                 ELSE dataPc[s] # "none" /\ dataTok[s] \notin cancelled}

\* C38: in every reachable state at most one input task and at most one data
\* collection task hold a token that is not cancelled, and every task of a
\* session older than the current one holds a cancelled token.
C38_AtMostOneActiveSession ==
  /\ \A k \in TaskKinds : Cardinality(ActiveSessions(k)) <= 1
  /\ \A k \in TaskKinds : ActiveSessions(k) \subseteq {cur}
  /\ \A s \in 1..MaxSessions :
       s < cur => (inTok[s] \in cancelled /\ dataTok[s] \in cancelled)

\* Two sessions have been started with no stop() in between: the loops of
\* the first still run, on a cancelled token; those of the second run on the
\* token that is not cancelled.
C38_Witness ==
  /\ cur = 2
  /\ inPc[1] = "loop" /\ dataPc[1] \in {"check", "collect", "sleep"}
  /\ inPc[2] = "loop" /\ dataPc[2] \in {"check", "collect", "sleep"}
  /\ ActiveSessions("in") = {2} /\ ActiveSessions("data") = {2}

====
